---- MODULE Spec2Model ----
(***************************************************************************)
(* Model of the screening pipeline of src/app.py: the upload handler that  *)
(* stores a batch in the process-wide processed_data, the screen_papers    *)
(* handler, and the generator screen_papers.generate that classifies the   *)
(* records one by one and streams events.                                  *)
(*                                                                         *)
(* Text is a sequence of symbols.  The symbols stand for the pieces of a   *)
(* model response the code looks at:                                       *)
(*   "TAG"    the literal  [CLASSIFICATION:                                *)
(*   "]"      a closing bracket                                            *)
(*   "shi"    the character U+662F (the included marker)                   *)
(*   "fou"    the character U+5426 (the excluded marker)                   *)
(*   "bu"     the character U+4E0D ("bu","shi" is the phrase "is not")     *)
(*   "weizhi" the two characters U+672A U+77E5 (the undetermined marker)   *)
(*   "sp"     a white-space character                                      *)
(*   "x"      any other character                                          *)
(* The verdicts "yes", "no", "unknown" stand for the three result strings  *)
(* of the source (U+662F, U+5426, U+672A U+77E5).  Record fields carry     *)
(* ASCII names: title, abstract, keywords, authors, country, date, PMID.   *)
(***************************************************************************)
EXTENDS Integers, Sequences, FiniteSets, TLC

VARIABLES
    processed_data,   \* the global dict of app.py: <<>> when empty, else a record
    outputs,          \* screened tables written to OUTPUT_FOLDER, in order
    http,             \* what screen_papers returned: "none", "400", "500", "stream"
    pc,               \* where the generator stands (the yield it is suspended at)
    records,          \* the list object bound at screen_papers line 484
    prompt,           \* the criterion of the request
    total,            \* generate: total
    results,          \* generate: results
    current_index,    \* generate: current_index (0 before the first record)
    retry_count,      \* generate: retry_count
    result,           \* generate: result
    answer,           \* generate: answer
    answer_clean,     \* generate: answer_clean
    events,           \* the events yielded so far, in order
    model_calls,      \* the calls of chat_with_local_model made so far, in order
    error,            \* why the generator raised: "none", "backend", "export"
    text,             \* the response text under extraction (extractor specification)
    verdict,          \* the extractor's output for text ("none" before it ran)
    uploads,          \* the upload requests handled so far, each with its response
    last_screen       \* the last request screen_papers handled (<<>> before the first)

runvars == <<http, pc, records, prompt, total, results, current_index, retry_count,
             result, answer, answer_clean, events, model_calls, error>>
vars == <<processed_data, outputs, http, pc, records, prompt, total, results,
          current_index, retry_count, result, answer, answer_clean, events,
          model_calls, error, text, verdict, uploads, last_screen>>

----------------------------------------------------------------------------
(* Bounds of the model. *)

\* the longest batch an upload stores
MaxRecords == 2
\* the longest response text the extractor specification enumerates
MaxLen == 4
\* the most chunks, paragraphs or rows an uploaded file holds
MaxEntries == 2

(* Program constants. *)

\* generate: max_retries = 3
max_retries == 3
\* generate: the title is cut to 50 characters for display
TitleLimit == 50

----------------------------------------------------------------------------
(* Text helpers. *)

Sym == {"TAG", "]", "shi", "fou", "bu", "weizhi", "sp", "x"}

RECURSIVE LStrip(_)
LStrip(s) == IF s # <<>> /\ s[1] = "sp" THEN LStrip(Tail(s)) ELSE s

RECURSIVE RStrip(_)
RStrip(s) == IF s # <<>> /\ s[Len(s)] = "sp" THEN RStrip(SubSeq(s, 1, Len(s) - 1)) ELSE s

\* str.strip()
Strip(s) == RStrip(LStrip(s))

\* needle in s  (substring test)
Contains(s, needle) ==
    \E i \in 1..(Len(s) - Len(needle) + 1) : SubSeq(s, i, i + Len(needle) - 1) = needle

\* the sequence a function on 1..n is, as a tuple
AsSeq(f) == SubSeq(f, 1, Len(f))

\* the position of the first "]" after position i, or 0
FirstClose(s, i) ==
    IF \E j \in (i + 1)..Len(s) : s[j] = "]"
    THEN CHOOSE j \in (i + 1)..Len(s) :
            s[j] = "]" /\ \A k \in (i + 1)..(j - 1) : s[k] # "]"
    ELSE 0

\* the pattern \[CLASSIFICATION:([^\]]+)\] matches at position i
MatchAt(s, i) == s[i] = "TAG" /\ FirstClose(s, i) > i + 1

\* the position of the rightmost match, or 0 when there is none
classification_match_last(s) ==
    IF \E i \in 1..Len(s) : MatchAt(s, i)
    THEN CHOOSE i \in 1..Len(s) : MatchAt(s, i) /\ \A k \in (i + 1)..Len(s) : ~MatchAt(s, k)
    ELSE 0

\* re.search: the position of the leftmost match, or 0 when there is none
classification_match(s) ==
    IF \E i \in 1..Len(s) : MatchAt(s, i)
    THEN CHOOSE i \in 1..Len(s) : MatchAt(s, i) /\ \A k \in 1..(i - 1) : ~MatchAt(s, k)
    ELSE 0

\* classification_match.group(1).strip()
classification(s) ==
    LET i == classification_match(s)
    IN  Strip(SubSeq(s, i + 1, FirstClose(s, i) - 1))

\* lines 601-609: the verdict of a found tag
TagResult(c) ==
    IF c = <<"shi">> THEN "yes"
    ELSE IF c = <<"fou">> THEN "no"
    ELSE IF c = <<"weizhi">> THEN "unknown"
    ELSE "unknown"

\* the heuristic with no value for a text without any marker
HeuristicResultMissing(s) ==
    IF Contains(s, <<"fou">>) \/ Contains(s, <<"bu", "shi">>) THEN "no"
    ELSE IF Contains(s, <<"shi">>) THEN "yes"
    ELSE "none"

\* the heuristic with the included marker looked for first
HeuristicResultIncludedFirst(s) ==
    IF Contains(s, <<"shi">>) THEN "yes"
    ELSE IF Contains(s, <<"fou">>) \/ Contains(s, <<"bu", "shi">>) THEN "no"
    ELSE "unknown"

\* lines 616-621: the verdict inferred from a text without a tag
HeuristicResult(s) ==
    IF Contains(s, <<"fou">>) \/ Contains(s, <<"bu", "shi">>) THEN "no"
    ELSE IF Contains(s, <<"shi">>) THEN "yes"
    ELSE "unknown"

\* the result of one response with the lexical markers consulted before the tag
ParseResultHeuristicFirst(s) ==
    IF HeuristicResult(s) # "unknown" THEN HeuristicResult(s)
    ELSE IF classification_match(s) # 0 THEN TagResult(classification(s))
    ELSE "unknown"

\* the result of one response with the heuristic consulted for a tag whose
\* value is none of the three markers
ParseResultHeuristicOnOther(s) ==
    IF classification_match(s) # 0 /\ classification(s) \in {<<"shi">>, <<"fou">>, <<"weizhi">>}
    THEN TagResult(classification(s))
    ELSE HeuristicResult(s)

\* lines 596-621: the result one response sets
ParseResult(s) ==
    IF classification_match(s) # 0 THEN TagResult(classification(s)) ELSE HeuristicResult(s)

----------------------------------------------------------------------------
(* Records, batches and the prompt. *)

\* the files an upload may carry: source f with n records, written <<f, n>>;
\* source "a" in every length up to MaxRecords, source "b" in the shorter ones
Sources == {"a", "b"}
Files == {fn \in Sources \X (1..MaxRecords) : fn[1] = "b" => fn[2] < MaxRecords}

\* a title longer than TitleLimit
LongTitle == [j \in 1..(TitleLimit + 1) |-> "t"]

\* the k-th record the parser emits for file f (all seven fields present)
RecordOf(f, k) ==
    [PMID     |-> <<ToString(k)>>,
     title    |-> IF f = "a" /\ k = 2 THEN LongTitle ELSE <<f, ToString(k)>>,
     abstract |-> IF k = 2 THEN <<>> ELSE <<"abs">>,
     keywords |-> IF f = "a" THEN <<>> ELSE <<"kw">>,
     authors  |-> <<>>,
     country  |-> <<>>,
     date     |-> <<>>]

\* the list of records parsed from file f
Batch(f, n) == [k \in 1..n |-> RecordOf(f, k)]

\* the criterion of a request: empty or not
Prompts == {"", "criterion"}

\* lines 495-496: title_display
TitleDisplay(title) ==
    IF Len(title) > TitleLimit
    THEN SubSeq(title, 1, TitleLimit) \o <<".", ".", ".">>
    ELSE title

\* text_parts with the authors as a fourth part
text_parts_with_authors(record) ==
    (IF record.title # <<>> THEN << <<"title", record.title>> >> ELSE <<>>)
    \o (IF record.abstract # <<>> THEN << <<"abstract", record.abstract>> >> ELSE <<>>)
    \o (IF record.keywords # <<>> THEN << <<"keywords", record.keywords>> >> ELSE <<>>)
    \o (IF record.authors # <<>> THEN << <<"authors", record.authors>> >> ELSE <<>>)

\* lines 501-509: the labelled non-empty fields, in the order title, abstract, keywords
text_parts(record) ==
    (IF record.title # <<>> THEN << <<"title", record.title>> >> ELSE <<>>)
    \o (IF record.abstract # <<>> THEN << <<"abstract", record.abstract>> >> ELSE <<>>)
    \o (IF record.keywords # <<>> THEN << <<"keywords", record.keywords>> >> ELSE <<>>)

\* lines 511-560: the prompt is the fixed template around the criterion and the paper text
full_prompt(p, record) == [criterion |-> p, paper_text |-> text_parts(record)]

\* response texts: a tag after exclude-sounding prose, a tag with the undetermined
\* marker, a tag with a value that is no marker, two tags of which the first is the
\* included one, and texts without a tag that read excluded, included, or neither
RespTagYes == <<"fou", "TAG", "shi", "]", "sp">>
RespTagUnknown == <<"TAG", "weizhi", "]">>
RespTagOther == <<"x", "TAG", "sp", "x", "]">>
RespTwoTags == <<"TAG", "shi", "]", "sp", "TAG", "fou", "]">>
RespNoTagNo == <<"bu", "shi">>
RespNoTagYes == <<"sp", "shi", "x">>
RespNoTagNone == <<"x">>

\* the responses the backend may give in a run over a batch of several records
Responses == {RespTagYes, RespTagUnknown, RespNoTagNo}

\* the responses the backend may give in a run over a single record
RecordResponses ==
    {RespTagYes, RespTagUnknown, RespTagOther, RespTwoTags, RespNoTagNo, RespNoTagYes,
     RespNoTagNone}

----------------------------------------------------------------------------
(* The events of the stream. *)

StartEvent(n) == [type |-> "start", total |-> n]

ProgressEvent(i, n, title) ==
    [type |-> "progress", current |-> i, total |-> n, title |-> title,
     status |-> "analyzing"]

\* lines 574-577: the first send shows the prompt, a later one the retry notice
SendEvent(i, rc) ==
    [type |-> "ai_interaction", paper_id |-> i, interaction_type |-> "send",
     label |-> IF rc = 0 THEN "prompt" ELSE "retry", attempt |-> rc + 1]

ReceiveEvent(i, rc, content) ==
    [type |-> "ai_interaction", paper_id |-> i, interaction_type |-> "receive",
     content |-> content, attempt |-> rc + 1]

ResultEvent(result_data) == [type |-> "result", data |-> result_data]

\* the number of entries of results with a result in set S
CountIn(rs, S) == Cardinality({k \in 1..Len(rs) : rs[k].result \in S})

\* the summary with every result other than included counted as excluded
SummaryNotYes(n, rs) ==
    [total   |-> n,
     yes     |-> CountIn(rs, {"yes"}),
     no      |-> Len(rs) - CountIn(rs, {"yes"}),
     unknown |-> Len(rs) - CountIn(rs, {"yes", "no"})]

\* line 668: the summary of the complete event
Summary(n, rs) ==
    [total   |-> n,
     yes     |-> CountIn(rs, {"yes"}),
     no      |-> CountIn(rs, {"no"}),
     unknown |-> Len(rs) - CountIn(rs, {"yes", "no"})]

CompleteEvent(n, rs, file) ==
    [type |-> "complete", summary |-> Summary(n, rs), download_url |-> file]

----------------------------------------------------------------------------
(* The state after the module of app.py is loaded. *)

Init ==
    /\ processed_data = <<>>
    /\ outputs = <<>>
    /\ http = "none"
    /\ pc = "idle"
    /\ records = <<>>
    /\ prompt = ""
    /\ total = 0
    /\ results = <<>>
    /\ current_index = 0
    /\ retry_count = 0
    /\ result = "unknown"
    /\ answer = <<>>
    /\ answer_clean = <<>>
    /\ events = <<>>
    /\ model_calls = <<>>
    /\ error = "none"
    /\ text = <<>>
    /\ verdict = "none"
    /\ uploads = <<>>
    /\ last_screen = <<>>

----------------------------------------------------------------------------
(* upload_file, lines 406-463: a successful upload replaces processed_data   *)
(* by a new dict holding a new list of records (line 447); the list a run    *)
(* was started with is never written to, so the run's copy is held by value. *)
(* An upload that fails returns before line 447 and changes nothing here.    *)

upload_file(f, n) ==
    /\ processed_data' = [records |-> Batch(f, n), total |-> n, screened_output |-> 0]
    /\ UNCHANGED <<outputs, runvars, text, verdict, uploads, last_screen>>

\* screen_papers without the health check of line 481
screen_papers_unchecked(p, ollama) ==
    /\ pc = "idle"
    /\ last_screen' = [prompt |-> p, ollama |-> ollama]
    /\ IF processed_data = <<>> THEN
            /\ http' = "400 no file"
            /\ UNCHANGED <<pc, records, prompt>>
       ELSE IF p = "" THEN
            /\ http' = "400 no prompt"
            /\ UNCHANGED <<pc, records, prompt>>
       ELSE
            /\ http' = "200 stream"
            /\ records' = processed_data.records
            /\ prompt' = p
            /\ pc' = "created"
    /\ UNCHANGED <<processed_data, outputs, total, results, current_index, retry_count,
                   result, answer, answer_clean, events, model_calls, error, text, verdict, uploads>>

(* screen_papers, lines 466-484 and 670-671: the checks, then the generator  *)
(* is created over the list processed_data['records'] names at that moment.  *)

screen_papers(p, ollama) ==
    /\ pc = "idle"
    /\ last_screen' = [prompt |-> p, ollama |-> ollama]
    /\ IF processed_data = <<>> THEN
            /\ http' = "400 no file"
            /\ UNCHANGED <<pc, records, prompt>>
       ELSE IF p = "" THEN
            /\ http' = "400 no prompt"
            /\ UNCHANGED <<pc, records, prompt>>
       ELSE IF ~ollama THEN
            /\ http' = "500 no ollama"
            /\ UNCHANGED <<pc, records, prompt>>
       ELSE
            /\ http' = "200 stream"
            /\ records' = processed_data.records
            /\ prompt' = p
            /\ pc' = "created"
    /\ UNCHANGED <<processed_data, outputs, total, results, current_index, retry_count,
                   result, answer, answer_clean, events, model_calls, error, text, verdict, uploads>>

----------------------------------------------------------------------------
(* generate, lines 486-668.  Each action runs the generator from the yield   *)
(* it is suspended at to its next yield (or to its end), as one pull of the  *)
(* consumer does.  A behaviour holds one streamed run; uploads may come at   *)
(* any moment of it.                                                         *)

\* Start with the total stored by the upload instead of len(records)
StartStoredTotal ==
    /\ pc = "created"
    /\ total' = processed_data.total
    /\ results' = <<>>
    /\ events' = Append(events, StartEvent(processed_data.total))
    /\ pc' = "start"
    /\ UNCHANGED <<processed_data, outputs, http, records, prompt, current_index,
                   retry_count, result, answer, answer_clean, model_calls, error,
                   text, verdict, uploads, last_screen>>

\* lines 487-491
Start ==
    /\ pc = "created"
    /\ total' = Len(records)
    /\ results' = <<>>
    /\ events' = Append(events, StartEvent(Len(records)))
    /\ pc' = "start"
    /\ UNCHANGED <<processed_data, outputs, http, records, prompt, current_index,
                   retry_count, result, answer, answer_clean, model_calls, error,
                   text, verdict, uploads, last_screen>>

\* lines 493-499: the loop takes the next record
Progress ==
    /\ pc \in {"start", "result"}
    /\ current_index < Len(records)
    /\ current_index' = current_index + 1
    /\ events' = Append(events,
            ProgressEvent(current_index + 1, total,
                          TitleDisplay(records[current_index + 1].title)))
    /\ pc' = "progress"
    /\ UNCHANGED <<processed_data, outputs, http, records, prompt, total, results,
                   retry_count, result, answer, answer_clean, model_calls, error,
                   text, verdict, uploads, last_screen>>

\* lines 501-575: the prompt is built, the loop variables are set, the first send
FirstSend ==
    /\ pc = "progress"
    /\ retry_count' = 0
    /\ result' = "unknown"
    /\ answer_clean' = <<>>
    /\ answer' = <<>>
    /\ events' = Append(events, SendEvent(current_index, 0))
    /\ pc' = "send"
    /\ UNCHANGED <<processed_data, outputs, http, records, prompt, total, results,
                   current_index, model_calls, error, text, verdict, uploads, last_screen>>

\* the call of line 579 as the backend sees it
ModelCall(ok, response) ==
    [paper_id |-> current_index,
     content  |-> full_prompt(prompt, records[current_index]),
     at       |-> Len(events),
     ok       |-> ok,
     response |-> response]

\* lines 579-583: the backend answers
Receive(a) ==
    /\ pc = "send"
    /\ model_calls' = Append(model_calls, ModelCall(TRUE, a))
    /\ answer' = a
    /\ answer_clean' = Strip(a)
    /\ events' = Append(events, ReceiveEvent(current_index, retry_count, Strip(a)))
    /\ pc' = "receive"
    /\ UNCHANGED <<processed_data, outputs, http, records, prompt, total, results,
                   current_index, retry_count, result, error, text, verdict, uploads, last_screen>>

\* line 569: the condition of the while loop
LoopCondition(rc) == rc < max_retries

\* result_data with the stripped text as raw_response
ResultDataClean(r) ==
    [index        |-> current_index,
     title        |-> TitleDisplay(records[current_index].title),
     result       |-> r,
     raw_response |-> answer_clean]

\* result_data with the loop index i of line 493 as index
ResultDataZeroBased(r) ==
    [index        |-> current_index - 1,
     title        |-> TitleDisplay(records[current_index].title),
     result       |-> r,
     raw_response |-> answer]

\* lines 638-644: result_data
ResultData(r) ==
    [index        |-> current_index,
     title        |-> TitleDisplay(records[current_index].title),
     result       |-> r,
     raw_response |-> answer]

\* lines 569-577: the loop goes round and yields the send of attempt rc + 1
SendAgain(rc) ==
    /\ events' = Append(events, SendEvent(current_index, rc))
    /\ pc' = "send"
    /\ UNCHANGED results

\* lines 636-647: the loop is left with result r; the result is stored and yielded
Resolve(r) ==
    /\ results' = Append(results, ResultData(r))
    /\ events' = Append(events, ResultEvent(ResultData(r)))
    /\ pc' = "result"

\* BackendError with the raise of line 634 left out: the loop ends and the record resolves
BackendErrorSkip ==
    /\ pc = "send"
    /\ model_calls' = Append(model_calls, ModelCall(FALSE, <<>>))
    /\ retry_count' = retry_count + 1
    /\ IF LoopCondition(retry_count + 1)
       THEN SendAgain(retry_count + 1)
       ELSE Resolve(result)
    /\ UNCHANGED <<processed_data, outputs, http, records, prompt, total, error,
                   current_index, result, answer, answer_clean, text, verdict, uploads, last_screen>>

\* BackendError with the exception raised again at the first failure
BackendErrorNoRetry ==
    /\ pc = "send"
    /\ model_calls' = Append(model_calls, ModelCall(FALSE, <<>>))
    /\ retry_count' = retry_count + 1
    /\ pc' = "failed"
    /\ error' = "backend"
    /\ UNCHANGED <<processed_data, outputs, http, records, prompt, total, events, results,
                   current_index, result, answer, answer_clean, text, verdict, uploads, last_screen>>

\* BackendError with the exception raised again only past the bound
BackendErrorLateRaise ==
    /\ pc = "send"
    /\ model_calls' = Append(model_calls, ModelCall(FALSE, <<>>))
    /\ retry_count' = retry_count + 1
    /\ IF retry_count + 1 > max_retries THEN
            /\ pc' = "failed"
            /\ error' = "backend"
            /\ UNCHANGED <<events, results>>
       ELSE
            /\ IF LoopCondition(retry_count + 1)
               THEN SendAgain(retry_count + 1)
               ELSE Resolve(result)
            /\ UNCHANGED error
    /\ UNCHANGED <<processed_data, outputs, http, records, prompt, total,
                   current_index, result, answer, answer_clean, text, verdict, uploads, last_screen>>

\* lines 579, 630-634 and 569-577: the call raises
BackendError ==
    /\ pc = "send"
    /\ model_calls' = Append(model_calls, ModelCall(FALSE, <<>>))
    /\ retry_count' = retry_count + 1
    /\ IF retry_count + 1 >= max_retries THEN
            /\ pc' = "failed"
            /\ error' = "backend"
            /\ UNCHANGED <<events, results>>
       ELSE
            /\ IF LoopCondition(retry_count + 1)
               THEN SendAgain(retry_count + 1)
               ELSE Resolve(result)
            /\ UNCHANGED error
    /\ UNCHANGED <<processed_data, outputs, http, records, prompt, total,
                   current_index, result, answer, answer_clean, text, verdict, uploads, last_screen>>

\* NeedsRetry with a retry also for a tag that gives the undetermined result
NeedsRetryOnUnknown(s, rc) ==
    /\ classification_match(s) = 0 \/ TagResult(classification(s)) = "unknown"
    /\ rc < max_retries - 1

\* lines 613 and 624: a response without a tag, and an attempt still left
NeedsRetry(s, rc) == classification_match(s) = 0 /\ rc < max_retries - 1

\* Classify with the result stored after every attempt
ClassifyEager ==
    /\ pc = "receive"
    /\ result' = ParseResult(answer_clean)
    /\ results' = Append(results, ResultData(ParseResult(answer_clean)))
    /\ IF NeedsRetry(answer_clean, retry_count) THEN
            /\ retry_count' = retry_count + 1
            /\ events' = Append(events, SendEvent(current_index, retry_count + 1))
            /\ pc' = "send"
       ELSE
            /\ events' = Append(events, ResultEvent(ResultData(ParseResult(answer_clean))))
            /\ pc' = "result"
            /\ UNCHANGED retry_count
    /\ UNCHANGED <<processed_data, outputs, http, records, prompt, total, current_index,
                   answer, answer_clean, model_calls, error, text, verdict, uploads, last_screen>>

\* Classify with the increment of line 625 left out
ClassifyNoIncrement ==
    /\ pc = "receive"
    /\ result' = ParseResult(answer_clean)
    /\ IF classification_match(answer_clean) = 0 THEN
            /\ UNCHANGED retry_count
            /\ SendAgain(retry_count)
       ELSE
            /\ Resolve(ParseResult(answer_clean))
            /\ UNCHANGED retry_count
    /\ UNCHANGED <<processed_data, outputs, http, records, prompt, total, current_index,
                   answer, answer_clean, model_calls, error, text, verdict, uploads, last_screen>>

\* Classify with a verdict of an earlier attempt kept once there is one
ClassifyKeepEarlier ==
    /\ pc = "receive"
    /\ result' = IF result # "unknown" THEN result ELSE ParseResult(answer_clean)
    /\ IF NeedsRetry(answer_clean, retry_count) THEN
            /\ retry_count' = retry_count + 1
            /\ IF LoopCondition(retry_count + 1)
               THEN SendAgain(retry_count + 1)
               ELSE Resolve(IF result # "unknown" THEN result ELSE ParseResult(answer_clean))
       ELSE
            /\ Resolve(IF result # "unknown" THEN result ELSE ParseResult(answer_clean))
            /\ UNCHANGED retry_count
    /\ UNCHANGED <<processed_data, outputs, http, records, prompt, total, current_index,
                   answer, answer_clean, model_calls, error, text, verdict, uploads, last_screen>>

\* lines 585-628: the response is parsed; then the loop goes round (lines 625-627)
\* or is left (break, lines 612 and 628)
Classify ==
    /\ pc = "receive"
    /\ result' = ParseResult(answer_clean)
    /\ IF NeedsRetry(answer_clean, retry_count) THEN
            /\ retry_count' = retry_count + 1
            /\ IF LoopCondition(retry_count + 1)
               THEN SendAgain(retry_count + 1)
               ELSE Resolve(ParseResult(answer_clean))
       ELSE
            /\ Resolve(ParseResult(answer_clean))
            /\ UNCHANGED retry_count
    /\ UNCHANGED <<processed_data, outputs, http, records, prompt, total, current_index,
                   answer, answer_clean, model_calls, error, text, verdict, uploads, last_screen>>

\* lines 650-656: the table built from the stored records and the results
ScreenedTable(recs, rs) == [k \in 1..Len(recs) |-> [record |-> recs[k], screen |-> rs[k].result]]

\* lines 649-668: after the last record the table is written and complete is sent;
\* the assignment of line 651 raises when the stored batch has another length
Complete ==
    /\ pc \in {"start", "result"}
    /\ current_index >= Len(records)
    /\ IF Len(processed_data.records) # Len(results) THEN
            /\ pc' = "failed"
            /\ error' = "export"
            /\ UNCHANGED <<processed_data, outputs, events>>
       ELSE
            /\ outputs' = Append(outputs, ScreenedTable(processed_data.records, results))
            /\ processed_data' = [processed_data EXCEPT !.screened_output = Len(outputs) + 1]
            /\ events' = Append(events, CompleteEvent(total, results, Len(outputs) + 1))
            /\ pc' = "complete"
            /\ UNCHANGED error
    /\ UNCHANGED <<http, records, prompt, total, results, current_index, retry_count,
                   result, answer, answer_clean, model_calls, text, verdict, uploads, last_screen>>

\* the generator returns after its last yield
Finish ==
    /\ pc = "complete"
    /\ pc' = "done"
    /\ UNCHANGED <<processed_data, outputs, http, records, prompt, total, results,
                   current_index, retry_count, result, answer, answer_clean, events,
                   model_calls, error, text, verdict, uploads, last_screen>>

Upload == \E fn \in Files : upload_file(fn[1], fn[2])
Screen == \E p \in Prompts, ollama \in BOOLEAN : screen_papers(p, ollama)
Respond == \E a \in Responses : Receive(a)

Next ==
    \/ Upload
    \/ Screen
    \/ Start
    \/ Progress
    \/ FirstSend
    \/ Respond
    \/ BackendError
    \/ Classify
    \/ Complete
    \/ Finish

\* the steps of the generator
Generate ==
    \/ Start
    \/ Progress
    \/ FirstSend
    \/ Respond
    \/ BackendError
    \/ Classify
    \/ Complete
    \/ Finish

\* runs over batches of up to MaxRecords records, uploads at any moment
Spec == Init /\ [][Next]_vars

UploadOne == \E f \in Sources : upload_file(f, 1)
RespondRecord == \E a \in RecordResponses : Receive(a)

NextRecord ==
    \/ UploadOne
    \/ Screen
    \/ Start
    \/ Progress
    \/ FirstSend
    \/ RespondRecord
    \/ BackendError
    \/ Classify
    \/ Complete
    \/ Finish

\* the classification of one record, over every kind of response
SpecRecord == Init /\ [][NextRecord]_vars

\* the yields the generator may stand at, and the moment before its first step
Suspended == {"created", "start", "progress", "send", "receive", "result", "complete"}

\* Close with the call of line 579 made when the generator stands at a send
CloseAfterCall ==
    /\ pc \in Suspended
    /\ pc' = "closed"
    /\ model_calls' = IF pc = "send" THEN Append(model_calls, ModelCall(TRUE, <<>>))
                      ELSE model_calls
    /\ UNCHANGED <<processed_data, outputs, http, records, prompt, total, results,
                   current_index, retry_count, result, answer, answer_clean, events,
                   error, text, verdict, uploads, last_screen>>

\* the consumer of the response stops pulling and the generator is closed:
\* GeneratorExit is raised at the yield it stands at, which the handler of
\* lines 630-634 (except Exception) does not catch, so generate ends there
Close ==
    /\ pc \in Suspended
    /\ pc' = "closed"
    /\ UNCHANGED <<processed_data, outputs, http, records, prompt, total, results,
                   current_index, retry_count, result, answer, answer_clean, events,
                   model_calls, error, text, verdict, uploads, last_screen>>

NextCancel ==
    \/ Upload
    \/ Screen
    \/ Start
    \/ Progress
    \/ FirstSend
    \/ Respond
    \/ BackendError
    \/ Classify
    \/ Complete
    \/ Finish
    \/ Close

\* runs the consumer may stop pulling from at any yield
SpecCancel == Init /\ [][NextCancel]_vars

----------------------------------------------------------------------------
(* The extraction of lines 580 and 594-621 applied to one response text. *)

RECURSIVE Texts(_)
Texts(n) == IF n = 0 THEN {<<>>} ELSE Texts(n - 1) \cup {Append(t, c) : t \in Texts(n - 1), c \in Sym}

InitExtract ==
    /\ text \in Texts(MaxLen)
    /\ verdict = "none"
    /\ processed_data = <<>>
    /\ outputs = <<>>
    /\ http = "none"
    /\ pc = "idle"
    /\ records = <<>>
    /\ prompt = ""
    /\ total = 0
    /\ results = <<>>
    /\ current_index = 0
    /\ retry_count = 0
    /\ result = "unknown"
    /\ answer = <<>>
    /\ answer_clean = <<>>
    /\ events = <<>>
    /\ model_calls = <<>>
    /\ error = "none"
    /\ uploads = <<>>
    /\ last_screen = <<>>

Extract ==
    /\ verdict = "none"
    /\ answer' = text
    /\ answer_clean' = Strip(text)
    /\ verdict' = ParseResult(Strip(text))
    /\ UNCHANGED <<processed_data, outputs, http, pc, records, prompt, total, results,
                   current_index, retry_count, result, events, model_calls, error, text, uploads, last_screen>>

NextExtract == Extract

SpecExtract == InitExtract /\ [][NextExtract]_vars

----------------------------------------------------------------------------
(* Vocabulary of the properties. *)

Verdicts == {"yes", "no", "unknown"}

\* the substrings of s of the form [CLASSIFICATION:<value>], <value> not empty and
\* without a closing bracket, as <<position of the opener, position of the bracket>>
TagSpans(s) ==
    {sp \in (1..Len(s)) \X (1..Len(s)) :
        /\ s[sp[1]] = "TAG"
        /\ s[sp[2]] = "]"
        /\ sp[2] > sp[1] + 1
        /\ \A k \in (sp[1] + 1)..(sp[2] - 1) : s[k] # "]"}

HasTag(s) == TagSpans(s) # {}

\* the calls made for record i, as positions of the call log mc
CallsOf(mc, i) == {k \in 1..Len(mc) : mc[k].paper_id = i}

\* every call made for record i was answered, and no answer holds a tag
OnlyTaglessAnswers(mc, i) ==
    \A k \in CallsOf(mc, i) : mc[k].ok /\ ~HasTag(mc[k].response)

IsResult(e) == e.type = "result"
IsSend(e) == e.type = "ai_interaction" /\ e.interaction_type = "send"
IsReceive(e) == e.type = "ai_interaction" /\ e.interaction_type = "receive"

\* the positions of the events of ev that satisfy P
Positions(ev, P(_)) == {k \in 1..Len(ev) : P(ev[k])}

LastEvent(ev) == ev[Len(ev)]

----------------------------------------------------------------------------
(* C1: retry bound.  No record is ever the subject of more than 3 model     *)
(* calls; and when a record has had 3 answers, none of them holding a tag,  *)
(* the generator's next step makes no further call and emits the record's   *)
(* result event, whose verdict is what the fallback heuristic gives for the *)
(* last answer (excluded, included or undetermined).                        *)

C1_Step ==
    /\ \A i \in 1..Len(records') : Cardinality(CallsOf(model_calls', i)) <= 3
    /\ ( /\ pc = "receive"
         /\ OnlyTaglessAnswers(model_calls, current_index)
         /\ Cardinality(CallsOf(model_calls, current_index)) = 3 )
       => /\ pc' = "result"
          /\ model_calls' = model_calls
          /\ Len(events') = Len(events) + 1
          /\ IsResult(LastEvent(events'))
          /\ LastEvent(events').data.index = current_index
          /\ LastEvent(events').data.result = HeuristicResult(answer_clean)
          /\ LastEvent(events').data.result \in Verdicts

\* C1: at most 3 model calls per record; after 3 answers without a tag the next
\* step of the generator emits the result event with the heuristic verdict
C1_RetryBound == [][C1_Step]_runvars

\* a record resolved after three answers without a tag, the last reading "excluded"
C1_Witness ==
    /\ pc = "result"
    /\ Cardinality(CallsOf(model_calls, 1)) = 3
    /\ OnlyTaglessAnswers(model_calls, 1)
    /\ model_calls[1].response = RespNoTagNone
    /\ model_calls[3].response = RespNoTagNo
    /\ results[1].result = "no"

----------------------------------------------------------------------------
(* C2: when the last attempt left to a record ends in a backend failure,   *)
(* the generator raises: the run is failed for good, the failing record has *)
(* no result event, no later record was announced or sent to the model, and *)
(* there is no complete event and no screened export.  The failure comes    *)
(* out of the attempt loop: the last event is the send of that record.      *)

\* some record's third call ended in a backend failure
BudgetExhaustedByFailure ==
    \E c \in 1..Len(model_calls) :
        /\ ~model_calls[c].ok
        /\ Cardinality({d \in CallsOf(model_calls, model_calls[c].paper_id) : d <= c}) = 3

\* C2: a record whose third call fails fails the run: no result for it, no later
\* record touched, no complete event, no export, nothing more happens
C2_BackendFailureFailsRun ==
    BudgetExhaustedByFailure =>
        /\ pc = "failed"
        /\ error = "backend"
        /\ retry_count = 3
        /\ model_calls # <<>>
        /\ ~model_calls[Len(model_calls)].ok
        /\ model_calls[Len(model_calls)].paper_id = current_index
        /\ IsSend(LastEvent(events))
        /\ LastEvent(events).paper_id = current_index
        /\ \A k \in 1..Len(events) :
              /\ IsResult(events[k]) => events[k].data.index < current_index
              /\ events[k].type = "progress" => events[k].current <= current_index
              /\ events[k].type # "complete"
        /\ \A k \in 1..Len(model_calls) : model_calls[k].paper_id <= current_index
        /\ Len(results) = current_index - 1
        /\ outputs = <<>>
        /\ processed_data.screened_output = 0
        /\ ~ENABLED Generate

\* the first of two records exhausts its attempts on backend failures
C2_Witness ==
    /\ BudgetExhaustedByFailure
    /\ pc = "failed"
    /\ current_index = 1
    /\ Len(records) = 2
    /\ Cardinality(CallsOf(model_calls, 1)) = 3

----------------------------------------------------------------------------
(* C3: for every result event, the events of its record are one progress   *)
(* event, then only interaction events of that record: the first a send,    *)
(* every receive directly after a send, the last a receive, 1 to 3 sends in *)
(* all; then the result event, the only one of the record, which carries    *)
(* the stored verdict and the text of the last answer the backend gave for  *)
(* the record.                                                              *)

\* the record an event is about (0 for start and complete)
EventRecord(e) ==
    IF e.type = "progress" THEN e.current
    ELSE IF e.type = "ai_interaction" THEN e.paper_id
    ELSE IF e.type = "result" THEN e.data.index
    ELSE 0

\* the position in the call log of the last answered call for record i
LastAnswer(i) ==
    CHOOSE c \in CallsOf(model_calls, i) :
        /\ model_calls[c].ok
        /\ \A d \in CallsOf(model_calls, i) : model_calls[d].ok => d <= c

C3_RecordEvents(k) ==
    LET i == events[k].data.index
        about == {j \in 1..Len(events) : EventRecord(events[j]) = i}
        prog == {j \in about : events[j].type = "progress"}
        sends == {j \in about : IsSend(events[j])}
    IN  /\ Cardinality(prog) = 1
        /\ {j \in about : IsResult(events[j])} = {k}
        /\ \E p \in prog :
              /\ p < k
              /\ about = p..k
              /\ \A j \in (p + 1)..(k - 1) : IsSend(events[j]) \/ IsReceive(events[j])
              /\ IsSend(events[p + 1])
              /\ IsReceive(events[k - 1])
              /\ \A j \in (p + 1)..(k - 1) : IsReceive(events[j]) => IsSend(events[j - 1])
        /\ Cardinality(sends) \in 1..3
        /\ Cardinality(sends) = Cardinality(CallsOf(model_calls, i))
        /\ \E c \in CallsOf(model_calls, i) : model_calls[c].ok
        /\ events[k].data.raw_response = model_calls[LastAnswer(i)].response
        /\ events[k - 1].content = Strip(model_calls[LastAnswer(i)].response)
        /\ i \in 1..Len(results)
        /\ events[k].data = results[i]
        /\ events[k].data.result \in Verdicts

\* C3: every result event closes a well-ordered run of events of its record
C3_EventOrderPerRecord ==
    \A k \in 1..Len(events) : IsResult(events[k]) => C3_RecordEvents(k)

\* a record resolved on its third attempt after an attempt the backend failed
C3_Witness ==
    /\ pc = "result"
    /\ current_index = 2
    /\ Cardinality({j \in 1..Len(events) : IsSend(events[j]) /\ events[j].paper_id = 2}) = 3
    /\ Cardinality({j \in 1..Len(events) : IsReceive(events[j]) /\ events[j].paper_id = 2}) = 2
    /\ results[2].raw_response = RespTagYes

----------------------------------------------------------------------------
(* C4: the first event of a run is a start event whose total is the number  *)
(* of records of the batch, and no other event is a start event; a complete *)
(* event is the last event, comes directly after the result event of the    *)
(* last record, and is there exactly when the generator has passed its last *)
(* yield; a generator that has returned has emitted it.                     *)

C4_StartFirstCompleteLast ==
    /\ (pc \notin {"idle", "created"}) => events # <<>>
    /\ events # <<>> => events[1] = [type |-> "start", total |-> Len(records)]
    /\ \A k \in 2..Len(events) : events[k].type # "start"
    /\ \A k \in 1..Len(events) :
          events[k].type = "complete" =>
              /\ k = Len(events)
              /\ k > 1
              /\ IsResult(events[k - 1])
              /\ events[k - 1].data.index = Len(records)
    /\ (pc \in {"complete", "done"}) <=> (events # <<>> /\ LastEvent(events).type = "complete")
    /\ (pc = "failed") => \A k \in 1..Len(events) : events[k].type # "complete"

\* a run over two records has returned
C4_Witness ==
    /\ pc = "done"
    /\ Len(records) = 2
    /\ LastEvent(events).type = "complete"

----------------------------------------------------------------------------
(* C5: the result events carry the indices 1, 2, ... in this order; every   *)
(* model call for a record is made after the result event of the record     *)
(* before it and before the record's own result event, so the calls of two  *)
(* records never interleave.                                                *)

C5_OneRecordAtATime ==
    /\ \A k \in Positions(events, IsResult) :
          events[k].data.index = Cardinality({j \in Positions(events, IsResult) : j <= k})
    /\ \A c \in 1..Len(model_calls) :
          LET i == model_calls[c].paper_id
          IN  /\ i \in 1..Len(records)
              /\ i > 1 => \E k \in 1..model_calls[c].at :
                              IsResult(events[k]) /\ events[k].data.index = i - 1
              /\ \A k \in 1..model_calls[c].at :
                    IsResult(events[k]) => events[k].data.index < i
    /\ \A c, d \in 1..Len(model_calls) :
          c <= d => model_calls[c].paper_id <= model_calls[d].paper_id

\* the second record is being sent to the model, with a retry behind the first
C5_Witness ==
    /\ pc = "receive"
    /\ current_index = 2
    /\ Cardinality(CallsOf(model_calls, 1)) = 2
    /\ Cardinality(CallsOf(model_calls, 2)) = 1

----------------------------------------------------------------------------
(* C6: every result event, and every stored result, carries one of the      *)
(* three verdicts; a record whose last answer holds neither a tag nor a     *)
(* lexical marker resolves to undetermined; and the generator raises only   *)
(* on a failed call, never on an answer it could not parse.                 *)

\* nothing can be parsed from s: no tag, no excluded and no included marker
NoParse(s) == ~HasTag(s) /\ ~Contains(s, <<"fou">>) /\ ~Contains(s, <<"shi">>)

\* C6: a result always carries one of the three verdicts; nothing parseable
\* means undetermined, never an error
C6_VerdictAlwaysPresent ==
    /\ \A k \in Positions(events, IsResult) :
          /\ events[k].data.result \in Verdicts
          /\ NoParse(events[k].data.raw_response) => events[k].data.result = "unknown"
    /\ \A k \in 1..Len(results) : results[k].result \in Verdicts
    /\ (pc = "failed" /\ error # "export") =>
          (model_calls # <<>> /\ ~model_calls[Len(model_calls)].ok)

\* three answers without tag or marker, and the record resolved as undetermined
C6_Witness ==
    /\ pc = "result"
    /\ Cardinality(CallsOf(model_calls, 1)) = 3
    /\ LastEvent(events).data.raw_response = RespNoTagNone
    /\ LastEvent(events).data.result = "unknown"

----------------------------------------------------------------------------
(* C7: tag wins over heuristic.  For a text in which exactly one substring  *)
(* has the form [CLASSIFICATION:<value>], and that value is one of the      *)
(* three markers, the extracted verdict is the marker's, whatever else the  *)
(* text holds.                                                              *)

TagValue(s, sp) == SubSeq(s, sp[1] + 1, sp[2] - 1)

RecognizedMarkers == {<<"shi">>, <<"fou">>, <<"weizhi">>}

MarkerVerdict(m) ==
    IF m = <<"shi">> THEN "yes" ELSE IF m = <<"fou">> THEN "no" ELSE "unknown"

\* C7: a text with exactly one tag, of a recognized marker, yields that marker
C7_TagWinsOverHeuristic ==
    (verdict # "none") =>
        \A sp \in TagSpans(text) :
            (TagSpans(text) = {sp} /\ TagValue(text, sp) \in RecognizedMarkers)
                => verdict = MarkerVerdict(TagValue(text, sp))

\* an excluded marker in the prose, then the included tag: the verdict is included
C7_Witness ==
    /\ text = <<"fou", "TAG", "shi", "]">>
    /\ verdict = "yes"

----------------------------------------------------------------------------
(* C8: the summary of a complete event: its three counts add up to its      *)
(* total, the total is the number of records of the batch, each count is    *)
(* the number of result events of the run with that verdict; there is one   *)
(* result event per record by then and one complete event.                  *)

ResultCount(v) ==
    Cardinality({k \in Positions(events, IsResult) : events[k].data.result = v})

IsComplete(e) == e.type = "complete"

\* C8: the summary of the complete event agrees with the result events
C8_SummaryConsistent ==
    \A k \in Positions(events, IsComplete) :
        LET s == events[k].summary
        IN  /\ s.yes + s.no + s.unknown = s.total
            /\ s.total = Len(records)
            /\ s.yes = ResultCount("yes")
            /\ s.no = ResultCount("no")
            /\ s.unknown = ResultCount("unknown")
            /\ Cardinality(Positions(events, IsResult)) = Len(records)
            /\ Positions(events, IsComplete) = {k}

\* a completed run over two records, one included and one undetermined
C8_Witness ==
    /\ pc = "complete"
    /\ LastEvent(events).summary = [total |-> 2, yes |-> 1, no |-> 0, unknown |-> 1]

----------------------------------------------------------------------------
(* C9: a run works on the batch it was started with: its result events name *)
(* the records of that batch, it does not fail at the export, its summary   *)
(* counts that batch, and row i of the table it exports is record i of that *)
(* batch with the verdict resolved for it.                                  *)

C9_RunKeepsItsBatch ==
    /\ \A k \in Positions(events, IsResult) :
          events[k].data.title = TitleDisplay(records[events[k].data.index].title)
    /\ error # "export"
    /\ \A k \in Positions(events, IsComplete) :
          LET table == outputs[events[k].download_url]
          IN  /\ events[k].summary.total = Len(records)
              /\ Len(table) = Len(records)
              /\ \A i \in 1..Len(table) :
                    /\ table[i].record = records[i]
                    /\ table[i].screen = results[i].result

----------------------------------------------------------------------------
(* C10: once a run is started the records of its batch never change, and no *)
(* step of the run changes the records stored in processed_data; results    *)
(* only grows, by one entry at a time, in the step that leaves the attempt  *)
(* loop and yields the record's result event; the entry holds the verdict   *)
(* and the answer of that record, and no entry is ever changed.             *)

C10_Step ==
    /\ (pc # "idle") => records' = records
    /\ (processed_data # <<>> /\ runvars' # runvars) =>
          processed_data'.records = processed_data.records
    /\ (pc \notin {"idle", "created"}) =>
          /\ Len(results') \in {Len(results), Len(results) + 1}
          /\ \A k \in 1..Len(results) : results'[k] = results[k]
          /\ (Len(results') = Len(results) + 1) =>
                /\ pc = "receive"
                /\ pc' = "result"
                /\ IsResult(LastEvent(events'))
                /\ LastEvent(events').data = results'[Len(results')]
                /\ results'[Len(results')].index = Len(results')
                /\ results'[Len(results')].index = current_index
                /\ results'[Len(results')].result = result'
                /\ results'[Len(results')].raw_response = answer'

\* C10: every step keeps the records unchanged and results append-only, one
\* entry per resolved record, written in the step that resolves it
C10_RecordsFrozenResultsWrittenOnce == [][C10_Step]_vars

\* both records of a batch have their entry in results
C10_Witness ==
    /\ pc = "result"
    /\ Len(results) = 2
    /\ results[1].index = 1
    /\ results[2].index = 2

----------------------------------------------------------------------------
(* The text of an uploaded file is a sequence of symbols: "NL" is a newline, *)
(* "sp" a space, "-" and ":" themselves, a tag name ("PMID", "TI", "FAU")    *)
(* or a line label ("Title") is one symbol, and so is every word and every   *)
(* run of digits.  A field value of a parsed record is such a sequence too.  *)

Ws == {"sp", "NL"}

\* the symbols that are two capital letters, [A-Z]{2}
TwoLetterTags == {"TI", "AB", "MH", "OT", "AU", "DP", "DA", "PL", "PG"}

\* the symbols that are runs of digits, \d+
DigitRuns == {"1", "2", "3", "4", "11", "2020", "20201231"}

\* \d{4} on a run of digits: its first four digits, when it has four
FirstFour(d) ==
    IF d = "2020" THEN <<"2020">>
    ELSE IF d = "20201231" THEN <<"2020">>
    ELSE <<>>

\* s.strip() is empty
IsBlank(s) == \A i \in 1..Len(s) : s[i] \in Ws

RECURSIVE WsLStrip(_)
WsLStrip(s) == IF s # <<>> /\ s[1] \in Ws THEN WsLStrip(Tail(s)) ELSE s

RECURSIVE WsRStrip(_)
WsRStrip(s) ==
    IF s # <<>> /\ s[Len(s)] \in Ws THEN WsRStrip(SubSeq(s, 1, Len(s) - 1)) ELSE s

\* str.strip() on a text that may hold newlines
WsStrip(s) == WsRStrip(WsLStrip(s))

\* the first position from i on that holds no whitespace, Len(t) + 1 if none
SkipWs(t, i) ==
    CHOOSE j \in i..(Len(t) + 1) :
        /\ j = Len(t) + 1 \/ t[j] \notin Ws
        /\ \A k \in i..(j - 1) : t[k] \in Ws

\* the first position from i on that holds a newline, Len(t) + 1 if none
LineEnd(t, i) ==
    CHOOSE j \in i..(Len(t) + 1) :
        /\ j = Len(t) + 1 \/ t[j] = "NL"
        /\ \A k \in i..(j - 1) : t[k] # "NL"

\* the smallest member of a non-empty set of positions
MinOf(S) == CHOOSE i \in S : \A k \in S : i <= k

MaxOf(S) == CHOOSE i \in S : \A k \in S : i >= k

\* str.split(sep), the pieces in order
RECURSIVE SplitOn(_, _)
SplitOn(t, sep) ==
    LET hits == {i \in 1..(Len(t) - Len(sep) + 1) : SubSeq(t, i, i + Len(sep) - 1) = sep}
    IN  IF hits = {} THEN <<t>>
        ELSE <<SubSeq(t, 1, MinOf(hits) - 1)>>
                \o SplitOn(SubSeq(t, MinOf(hits) + Len(sep), Len(t)), sep)

\* sep.join(parts)
RECURSIVE JoinWith(_, _)
JoinWith(parts, sep) ==
    IF parts = <<>> THEN <<>>
    ELSE IF Len(parts) = 1 THEN parts[1]
    ELSE parts[1] \o sep \o JoinWith(Tail(parts), sep)

\* s.replace('\n', ' ')
ReplaceNewlines(s) == AsSeq([i \in 1..Len(s) |-> IF s[i] = "NL" THEN "sp" ELSE s[i]])

SixSpaces == <<"sp", "sp", "sp", "sp", "sp", "sp">>

\* s.replace('      ', ' '): every run of six spaces, left to right, by one
RECURSIVE ReplaceSixSpaces(_)
ReplaceSixSpaces(s) ==
    IF Len(s) < 6 THEN s
    ELSE IF SubSeq(s, 1, 6) = SixSpaces
         THEN <<"sp">> \o ReplaceSixSpaces(SubSeq(s, 7, Len(s)))
         ELSE <<s[1]>> \o ReplaceSixSpaces(Tail(s))

\* .replace('\n', ' ').replace('      ', ' ').strip()
CleanBlock(s) == Strip(ReplaceSixSpaces(ReplaceNewlines(s)))

(* The patterns of parse_pubmed_txt.  They are searched anywhere in the text, *)
(* so a pattern that starts with a tag also matches where a longer tag ends  *)
(* in its letters: "AU" at the end of "FAU".                                 *)

\* the symbols whose last letters are the tag
EndingIn(tag) == IF tag = "AU" THEN {"AU", "FAU"} ELSE {tag}

\* TagHyphen is the position of the "-" of  TAG\s+-  matched at i, or 0

TagHyphen(t, i, tag) ==
    IF /\ t[i] \in EndingIn(tag)
       /\ i + 1 <= Len(t)
       /\ t[i + 1] \in Ws
       /\ SkipWs(t, i + 1) <= Len(t)
       /\ t[SkipWs(t, i + 1)] = "-"
    THEN SkipWs(t, i + 1)
    ELSE 0

\* the lookahead  \n[A-Z]{2}\s+-  holds at p
NextTagAt(t, p) ==
    /\ p + 1 <= Len(t)
    /\ t[p] = "NL"
    /\ t[p + 1] \in TwoLetterTags
    /\ TagHyphen(t, p + 1, t[p + 1]) # 0

\* TAG\s+-\s+(.*?)(?=\n[A-Z]{2}\s+-|\Z) matched at i: where group 1 starts
\* (the greedy \s+ takes all the whitespace after the hyphen), or 0
BlockStart(t, i, tag) ==
    LET h == TagHyphen(t, i, tag)
    IN  IF h # 0 /\ h + 1 <= Len(t) /\ t[h + 1] \in Ws THEN SkipWs(t, h + 1) ELSE 0

\* where the lazy group 1 that starts at s ends: before the first lookahead
BlockStop(t, s) ==
    MinOf({p \in s..(Len(t) + 1) : p = Len(t) + 1 \/ NextTagAt(t, p)})

\* re.search of the block pattern, DOTALL: group 1 cleaned, '' without match
BlockField(t, tag) ==
    LET hits == {i \in 1..Len(t) : BlockStart(t, i, tag) # 0}
    IN  IF hits = {} THEN <<>>
        ELSE LET s == BlockStart(t, MinOf(hits), tag)
             IN  CleanBlock(SubSeq(t, s, BlockStop(t, s) - 1))

\* TAG\s+-\s+(.+) matched at i: where group 1 starts, or 0.  The \s+ gives
\* whitespace back until (.+) finds a character that is no newline.
LineStart(t, i, tag) ==
    LET h == TagHyphen(t, i, tag)
        K == IF h # 0 /\ h + 1 <= Len(t) /\ t[h + 1] \in Ws
             THEN {k \in (h + 2)..SkipWs(t, h + 1) : k <= Len(t) /\ t[k] # "NL"}
             ELSE {}
    IN  IF K = {} THEN 0 ELSE MaxOf(K)

\* re.findall of the line pattern from position i on: every group 1
RECURSIVE FindAllFrom(_, _, _)
FindAllFrom(t, tag, i) ==
    IF i > Len(t) THEN <<>>
    ELSE IF LineStart(t, i, tag) # 0
         THEN LET s == LineStart(t, i, tag)
              IN  <<SubSeq(t, s, LineEnd(t, s) - 1)>> \o FindAllFrom(t, tag, LineEnd(t, s))
         ELSE FindAllFrom(t, tag, i + 1)

FindAll(t, tag) == FindAllFrom(t, tag, 1)

\* TAG\s+-\s+(\d{4}) : group 1 of the leftmost match, '' without match
YearField(t, tag) ==
    LET ok(i) == LET h == TagHyphen(t, i, tag)
                 IN  /\ h # 0
                     /\ h + 1 <= Len(t)
                     /\ t[h + 1] \in Ws
                     /\ SkipWs(t, h + 1) <= Len(t)
                     /\ FirstFour(t[SkipWs(t, h + 1)]) # <<>>
        hits == {i \in 1..Len(t) : ok(i)}
    IN  IF hits = {} THEN <<>>
        ELSE FirstFour(t[SkipWs(t, TagHyphen(t, MinOf(hits), tag) + 1)])

\* PMID-\s*(\d+) : group 1 of the leftmost match, '' without match
PmidField(t) ==
    LET ok(i) == /\ i + 1 <= Len(t)
                 /\ t[i] = "PMID"
                 /\ t[i + 1] = "-"
                 /\ SkipWs(t, i + 2) <= Len(t)
                 /\ t[SkipWs(t, i + 2)] \in DigitRuns
        hits == {i \in 1..Len(t) : ok(i)}
    IN  IF hits = {} THEN <<>> ELSE <<t[SkipWs(t, MinOf(hits) + 2)]>>

\* the last newline of the run of newlines that starts at i
RunEnd(t, i) ==
    MaxOf({j \in i..Len(t) : \A k \in i..j : t[k] = "NL"})

\* \n\n+(?=PMID-) matches at i
SplitPointAt(t, i) ==
    /\ t[i] = "NL"
    /\ RunEnd(t, i) >= i + 1
    /\ RunEnd(t, i) + 2 <= Len(t)
    /\ t[RunEnd(t, i) + 1] = "PMID"
    /\ t[RunEnd(t, i) + 2] = "-"

\* re.split(r'\n\n+(?=PMID-)', content)
RECURSIVE raw_records(_)
raw_records(t) ==
    LET hits == {i \in 1..Len(t) : SplitPointAt(t, i)}
    IN  IF hits = {} THEN <<t>>
        ELSE <<SubSeq(t, 1, MinOf(hits) - 1)>>
                \o raw_records(SubSeq(t, RunEnd(t, MinOf(hits)) + 1, Len(t)))

\* lines 195-242: the record of one chunk
PubmedRecord(raw_record) ==
    LET mesh_terms == FindAll(raw_record, "MH")
        authors == FindAll(raw_record, "AU")
        country == FindAll(raw_record, "PL")
    IN  [PMID     |-> PmidField(raw_record),
         title    |-> BlockField(raw_record, "TI"),
         abstract |-> BlockField(raw_record, "AB"),
         keywords |-> IF mesh_terms # <<>> THEN JoinWith(mesh_terms, <<";", "sp">>)
                      ELSE BlockField(raw_record, "OT"),
         authors  |-> JoinWith(SubSeq(authors, 1, IF Len(authors) < 5 THEN Len(authors) ELSE 5),
                               <<";", "sp">>),
         date     |-> IF YearField(raw_record, "DP") # <<>> THEN YearField(raw_record, "DP")
                      ELSE YearField(raw_record, "DA"),
         country  |-> IF country # <<>> THEN Strip(country[1]) ELSE <<>>]

\* lines 188-244: one record for every chunk that is not blank
RECURSIVE PubmedRecords(_)
PubmedRecords(chunks) ==
    IF chunks = <<>> THEN <<>>
    ELSE (IF IsBlank(chunks[1]) THEN <<>> ELSE <<PubmedRecord(chunks[1])>>)
            \o PubmedRecords(Tail(chunks))

(* The branch without 'PMID-', lines 246-283.                                *)

\* the labels a line may start with, per field (English and Chinese)
LineLabels ==
    [title    |-> {"Title", "BiaoTi"},
     abstract |-> {"Abstract", "ZhaiYao"},
     keywords |-> {"Keywords", "GuanJianCi"},
     authors  |-> {"Author", "ZuoZhe"},
     date     |-> {"Date", "RiQi"},
     country  |-> {"Country", "GuoJia"}]

\* line.strip().startswith(label + ':') for a label of the field
LabelledAs(line, field) ==
    LET l == Strip(line)
    IN  Len(l) >= 2 /\ l[1] \in LineLabels[field] /\ l[2] = ":"

\* line.split(':', 1)[1].strip()
AfterColon(line) ==
    LET l == Strip(line)
        c == MinOf({i \in 1..Len(l) : l[i] = ":"})
    IN  Strip(SubSeq(l, c + 1, Len(l)))

\* the for loop of lines 263-276: the last line labelled for the field wins
LabelledField(lines, field) ==
    LET hits == {i \in 1..Len(lines) : LabelledAs(lines[i], field)}
    IN  IF hits = {} THEN <<>> ELSE AfterColon(lines[MaxOf(hits)])

\* lines 252-283: the record of paragraph number i (counted from 0)
ParagraphRecord(i, para) ==
    LET lines == SplitOn(para, <<"NL">>)
        title == LabelledField(lines, "title")
        abstract == LabelledField(lines, "abstract")
    IN  [PMID     |-> <<ToString(i + 1)>>,
         title    |-> IF title = <<>> /\ Len(lines) > 0 THEN lines[1] ELSE title,
         abstract |-> IF abstract = <<>> /\ Len(lines) > 1
                      THEN JoinWith(Tail(lines), <<"NL">>)
                      ELSE abstract,
         keywords |-> LabelledField(lines, "keywords"),
         authors  |-> LabelledField(lines, "authors"),
         date     |-> LabelledField(lines, "date"),
         country  |-> LabelledField(lines, "country")]

\* lines 249-283: one record for every paragraph that is not blank, the
\* paragraphs numbered as enumerate numbers them
RECURSIVE ParagraphRecords(_, _)
ParagraphRecords(paragraphs, i) ==
    IF i >= Len(paragraphs) THEN <<>>
    ELSE (IF IsBlank(paragraphs[i + 1]) THEN <<>>
          ELSE <<ParagraphRecord(i, paragraphs[i + 1])>>)
            \o ParagraphRecords(paragraphs, i + 1)

\* parse_pubmed_txt, lines 179-285, on the text of the file
parse_pubmed_txt(content) ==
    IF Contains(content, <<"PMID", "-">>)
    THEN PubmedRecords(raw_records(content))
    ELSE ParagraphRecords(SplitOn(content, <<"NL", "NL">>), 0)

----------------------------------------------------------------------------
(* Workbooks.  A workbook as pandas reads it is its header row and its data  *)
(* rows; a header is the sequence of its characters; a cell is the sequence  *)
(* of symbols of its text and the empty sequence when pd.isna holds of it    *)
(* (an empty cell and a cell written from '' both read back as NaN).         *)

\* column_mapping, lines 308-316: per field the keywords a header may contain;
\* a keyword is the sequence of its characters, a character outside ASCII
\* is written by its code point
column_mapping ==
    [title |->
         {<<"u6807", "u9898">>,
          <<"t", "i", "t", "l", "e">>,
          <<"u6587", "u732E", "u6807", "u9898">>,
          <<"u6587", "u7AE0", "u6807", "u9898">>,
          <<"u9898", "u5F55">>,
          <<"u9898", "u540D">>},
     abstract |->
         {<<"u6458", "u8981">>,
          <<"a", "b", "s", "t", "r", "a", "c", "t">>,
          <<"u6587", "u732E", "u6458", "u8981">>,
          <<"u6587", "u7AE0", "u6458", "u8981">>,
          <<"u6982", "u8981">>,
          <<"u6982", "u8FF0">>},
     keywords |->
         {<<"u5173", "u952E", "u8BCD">>,
          <<"k", "e", "y", "w", "o", "r", "d">>,
          <<"u5173", "u952E", "u5B57">>,
          <<"k", "e", "y", " ", "w", "o", "r", "d">>,
          <<"u4E3B", "u9898", "u8BCD">>,
          <<"m", "e", "s", "h">>,
          <<"u4E3B", "u9898">>},
     authors |->
         {<<"u4F5C", "u8005">>,
          <<"a", "u", "t", "h", "o", "r">>,
          <<"u4F5C", "u8005", "u4FE1", "u606F">>,
          <<"u64B0", "u7A3F", "u4EBA">>,
          <<"w", "r", "i", "t", "e", "r">>,
          <<"u7814", "u7A76", "u4EBA", "u5458">>},
     date |->
         {<<"u65E5", "u671F">>,
          <<"d", "a", "t", "e">>,
          <<"u5E74", "u4EFD">>,
          <<"y", "e", "a", "r">>,
          <<"u53D1", "u8868", "u65E5", "u671F">>,
          <<"u53D1", "u8868", "u5E74", "u4EFD">>,
          <<"u51FA", "u7248", "u5E74">>,
          <<"u65F6", "u95F4">>},
     PMID |->
         {<<"p", "m", "i", "d">>,
          <<"p", "u", "b", "m", "e", "d">>,
          <<"p", "u", "b", " ", "m", "e", "d">>,
          <<"u6587", "u732E", "i", "d">>,
          <<"u6587", "u732E", "u6807", "u8BC6">>,
          <<"u7F16", "u53F7">>,
          <<"i", "d">>},
     country |->
         {<<"u56FD", "u5BB6">>,
          <<"c", "o", "u", "n", "t", "r", "y">>,
          <<"u5730", "u533A">>,
          <<"r", "e", "g", "i", "o", "n">>,
          <<"u5730", "u57DF">>,
          <<"p", "l", "a", "c", "e">>,
          <<"u5730", "u70B9">>}]

\* columns_order, line 291, with the header each field is exported under
columns_order == <<"title", "keywords", "abstract", "authors", "country", "date", "PMID">>

ExportHeader ==
    [title |-> <<"u6807", "u9898">>,
     keywords |-> <<"u5173", "u952E", "u8BCD">>,
     abstract |-> <<"u6458", "u8981">>,
     authors |-> <<"u4F5C", "u8005">>,
     country |-> <<"u56FD", "u5BB6">>,
     date |-> <<"u65E5", "u671F">>,
     PMID |-> <<"P", "M", "I", "D">>]

\* the headers of the uploaded workbooks, by their characters
HTitle == <<"T", "i", "t", "l", "e">>
HAbstract == <<"A", "b", "s", "t", "r", "a", "c", "t">>
HAbstractUpper == <<"A", "B", "S", "T", "R", "A", "C", "T">>
HKeyWords == <<"K", "e", "y", " ", "W", "o", "r", "d", "s">>
HAuthors == <<"A", "u", "t", "h", "o", "r", "s">>
HYear == <<"Y", "e", "a", "r">>
HPmid == <<"P", "M", "I", "D">>
HCountry == <<"C", "o", "u", "n", "t", "r", "y">>
HArticleTitle == <<"A", "r", "t", "i", "c", "l", "e", " ", "T", "i", "t", "l", "e">>
HNotes == <<"N", "o", "t", "e", "s">>
HJournal == <<"J", "o", "u", "r", "n", "a", "l">>
HPaperId == <<"P", "a", "p", "e", "r", " ", "I", "D">>
HSubtitle == <<"S", "u", "b", "t", "i", "t", "l", "e">>

\* the lower-case letter of every capital letter
LowerCase ==
    [A |-> "a", B |-> "b", C |-> "c", D |-> "d", E |-> "e", F |-> "f", G |-> "g",
     H |-> "h", I |-> "i", J |-> "j", K |-> "k", L |-> "l", M |-> "m", N |-> "n",
     O |-> "o", P |-> "p", Q |-> "q", R |-> "r", S |-> "s", T |-> "t", U |-> "u",
     V |-> "v", W |-> "w", X |-> "x", Y |-> "y", Z |-> "z"]

\* str.lower() on one character
LowerChar(c) == IF c \in DOMAIN LowerCase THEN LowerCase[c] ELSE c

\* str(col).lower()
Lower(s) == AsSeq([i \in 1..Len(s) |-> LowerChar(s[i])])

\* lines 319-329: the first column whose lowered header contains a keyword of
\* the field, or 0
ActualColumn(header, field) ==
    LET hits == {c \in 1..Len(header) :
                    LET col_lower == Lower(header[c])
                    IN  \E keyword \in column_mapping[field] :
                            Contains(col_lower, Lower(keyword))}
    IN  IF hits = {} THEN 0 ELSE MinOf(hits)

\* lines 318-329: actual_columns, the column of every field (0 for none)
actual_columns(header) ==
    [title    |-> ActualColumn(header, "title"),
     abstract |-> ActualColumn(header, "abstract"),
     keywords |-> ActualColumn(header, "keywords"),
     authors  |-> ActualColumn(header, "authors"),
     date     |-> ActualColumn(header, "date"),
     PMID     |-> ActualColumn(header, "PMID"),
     country  |-> ActualColumn(header, "country")]

\* lines 338-349: the value of a field in a row; '' for a field without
\* column and for a NaN cell, else str(value).strip()
RowValue(columns, row, field) ==
    IF columns[field] = 0 THEN <<>>
    ELSE IF row[columns[field]] = <<>> THEN <<>>
    ELSE WsStrip(row[columns[field]])

RowRecord(columns, row) ==
    [PMID     |-> RowValue(columns, row, "PMID"),
     title    |-> RowValue(columns, row, "title"),
     abstract |-> RowValue(columns, row, "abstract"),
     keywords |-> RowValue(columns, row, "keywords"),
     authors  |-> RowValue(columns, row, "authors"),
     date     |-> RowValue(columns, row, "date"),
     country  |-> RowValue(columns, row, "country")]

\* the check of line 332 with the abstract forgotten
MissingTitleColumn(header) == ActualColumn(header, "title") = 0

\* lines 332-333: the ValueError for a workbook without title and abstract
MissingRequiredColumns(header) ==
    ActualColumn(header, "title") = 0 /\ ActualColumn(header, "abstract") = 0

\* parse_excel, leaving out the rows without title and abstract
parse_excel_dropping(book) ==
    IF MissingRequiredColumns(book.header)
    THEN [raised |-> "ValueError", records |-> <<>>]
    ELSE LET columns == actual_columns(book.header)
             kept(row) == \/ RowRecord(columns, row).title # <<>>
                          \/ RowRecord(columns, row).abstract # <<>>
             rows == SelectSeq(book.rows, kept)
         IN  [raised |-> "none",
              records |-> AsSeq([r \in 1..Len(rows) |-> RowRecord(columns, rows[r])])]

\* parse_excel, lines 298-353: the exception it raises ("none" when it
\* returns) and the records it returns
parse_excel(book) ==
    IF MissingRequiredColumns(book.header)
    THEN [raised |-> "ValueError", records |-> <<>>]
    ELSE LET columns == actual_columns(book.header)
         IN  [raised |-> "none",
              records |-> AsSeq([r \in 1..Len(book.rows) |->
                                    RowRecord(columns, book.rows[r])])]

\* export_to_excel, lines 288-295: the workbook written for the records, its
\* columns in columns_order
export_to_excel(recs) ==
    [header |-> AsSeq([c \in 1..Len(columns_order) |-> ExportHeader[columns_order[c]]]),
     rows   |-> AsSeq([r \in 1..Len(recs) |->
                    AsSeq([c \in 1..Len(columns_order) |-> recs[r][columns_order[c]]])])]

----------------------------------------------------------------------------
(* The inputs of the upload specification. *)

\* a line of a PubMed export: the tag padded to four columns, "- ", the value
TagLine(tag, value) ==
    IF tag \in TwoLetterTags THEN <<tag, "sp", "sp", "-", "sp">> \o value
    ELSE IF tag = "FAU" THEN <<tag, "sp", "-", "sp">> \o value
    ELSE <<tag, "-", "sp">> \o value

\* a continuation line: six spaces, then the text
ContLine(value) == SixSpaces \o value

NL == <<"NL">>

\* the bodies of the chunks, each with the title and the abstract it states
\* (a value on several lines reads as its lines joined by one space)
ChunkBodies ==
    {[body     |-> TagLine("TI", <<"Foo">>) \o NL
                       \o TagLine("AB", <<"Bar", "sp", "baz">>),
      title    |-> <<"Foo">>,
      abstract |-> <<"Bar", "sp", "baz">>],
     [body     |-> TagLine("TI", <<"Qux">>),
      title    |-> <<"Qux">>,
      abstract |-> <<>>],
     [body     |-> TagLine("AU", <<"Smith", "sp", "J">>) \o NL
                       \o TagLine("DP", <<"2020", "sp", "Jan">>),
      title    |-> <<>>,
      abstract |-> <<>>],
     [body     |-> TagLine("TI", <<"Long">>) \o NL \o ContLine(<<"title">>) \o NL
                       \o TagLine("PG", <<"7">>) \o NL
                       \o TagLine("AB", <<"Text">>) \o NL
                       \o TagLine("MH", <<"Humans">>) \o NL
                       \o TagLine("MH", <<"Mice", "sp">>) \o NL
                       \o TagLine("PL", <<"England">>),
      title    |-> <<"Long", "sp", "title">>,
      abstract |-> <<"Text">>],
     [body     |-> TagLine("TI", <<"Qux">>) \o NL
                       \o TagLine("AB", <<"Text">>) \o NL
                       \o TagLine("FAU", <<"Smith", "sp", "John">>) \o NL
                       \o TagLine("AU", <<"Smith", "sp", "J">>) \o NL
                       \o TagLine("OT", <<"mice">>) \o NL
                       \o TagLine("DA", <<"20201231">>),
      title    |-> <<"Qux">>,
      abstract |-> <<"Text">>]}

\* the chunk at position k of a file: its PMID line, then the body
Chunk(k, b) == TagLine("PMID", <<ToString(k)>>) \o NL \o b.body

\* the separators between chunks and between paragraphs: one empty line,
\* two, or three
Separators == {<<"NL", "NL">>, <<"NL", "NL", "NL">>, <<"NL", "NL", "NL", "NL">>}

\* the paragraphs of the files without PMID tags
Paragraphs ==
    {<<"Some", "sp", "title", "NL", "body", "sp", "text">>,
     <<"Title", ":", "sp", "Foo", "NL", "Abstract", ":", "sp", "Bar", "NL",
       "Keywords", ":", "sp", "mice", "NL", "Author", ":", "sp", "Smith", "NL",
       "Date", ":", "sp", "2020", "NL", "Country", ":", "sp", "England">>,
     <<"sp", "Lead", "NL", "body", "sp">>,
     <<"Only">>,
     <<"BiaoTi", ":", "Qux", "NL", "ZhaiYao", ":">>,
     <<"sp", "sp">>}

\* the sequences over S of length 1..n
SeqsUpTo(S, n) == UNION {[1..m -> S] : m \in 1..n}

\* the text of a PubMed export holding the chunks bs
PubmedText(bs, sep) == JoinWith(AsSeq([k \in 1..Len(bs) |-> Chunk(k, bs[k])]), sep)

\* an uploaded file: whether the request has a file part, the file name by
\* its symbols, what the bytes are ("text", "workbook" or "other"), the text
\* of a text file, the sheet of a workbook; chunks is what the chunks of a
\* PubMed export state (used by the properties only)
File(name, kind, content, book, chunks) ==
    [part |-> TRUE, filename |-> name, kind |-> kind, content |-> content, book |-> book,
     chunks |-> chunks]

NoChunks == <<>>
EmptyBook == [header |-> <<>>, rows |-> <<>>]

TxtName == <<"a", ".", "txt">>
XlsxName == <<"a", ".", "xlsx">>

PubmedFiles ==
    {File(TxtName, "text", PubmedText(bs, sep), EmptyBook,
          AsSeq([k \in 1..Len(bs) |-> [PMID |-> <<ToString(k)>>, title |-> bs[k].title,
                                       abstract |-> bs[k].abstract]])) :
        bs \in SeqsUpTo(ChunkBodies, MaxEntries), sep \in {<<"NL", "NL">>, <<"NL", "NL", "NL">>}}

FreeTextFiles ==
    {File(TxtName, "text", JoinWith(ps, sep), EmptyBook, NoChunks) :
        ps \in SeqsUpTo(Paragraphs, MaxEntries), sep \in Separators}
      \cup {File(TxtName, "text", <<>>, EmptyBook, NoChunks)}

\* the header rows of the uploaded workbooks
Headers ==
    {<<HTitle, HAbstract>>,
     <<HAbstractUpper, HKeyWords, HAuthors, HYear, HPmid, HCountry>>,
     <<HArticleTitle, HNotes>>,
     <<HSubtitle, HTitle>>,
     <<HNotes, HJournal>>,
     <<HPaperId, HYear>>}

\* the cell of row r and column c, by the kind of the row: every cell
\* filled, filled with spaces around the text, empty, or the first one empty
RowKinds == {"full", "padded", "empty", "partial"}

BookCell(kind, r, c) ==
    IF kind = "full" THEN <<"v", ToString(r), ToString(c)>>
    ELSE IF kind = "padded" THEN <<"sp", "v", ToString(r), ToString(c), "NL">>
    ELSE IF kind = "empty" THEN <<>>
    ELSE IF c = 1 THEN <<>>
    ELSE <<"v", ToString(r), ToString(c)>>

Book(header, kinds) ==
    [header |-> header,
     rows   |-> AsSeq([r \in 1..Len(kinds) |->
                    AsSeq([c \in 1..Len(header) |-> BookCell(kinds[r], r, c)])])]

BookFiles ==
    {File(XlsxName, "workbook", <<>>, Book(h, kinds), NoChunks) :
        h \in Headers, kinds \in SeqsUpTo(RowKinds, MaxEntries) \cup {<<>>}}

\* one text and one workbook under other names, and bytes that are neither
OneText == PubmedText(<<CHOOSE b \in ChunkBodies : b.abstract = <<"Bar", "sp", "baz">> >>,
                      <<"NL", "NL">>)
OneBook == Book(<<HTitle, HAbstract>>, <<"full">>)

NamedFiles ==
    {File(n, "text", OneText, EmptyBook, NoChunks) :
        n \in {<<"a", ".", "TXT">>, <<"a", ".", ".", "txt">>, <<"b", "/", "a", ".", "txt">>,
               <<"a", ".", "csv">>, <<"a">>, <<>>, <<"a", ".", "xlsx">>}}
      \cup {File(n, "workbook", <<>>, OneBook, NoChunks) :
                n \in {<<"a", ".", "XLSX">>, <<"a", ".", "xls">>, <<"a", ".", "txt">>,
                       <<"a", ".", "pdf">>}}
      \cup {File(n, "other", <<>>, EmptyBook, NoChunks) : n \in {TxtName, XlsxName, <<"a", ".", "pdf">>}}
      \cup {[part |-> FALSE, filename |-> <<>>, kind |-> "other", content |-> <<>>,
             book |-> EmptyBook, chunks |-> NoChunks]}

UploadFiles == PubmedFiles \cup FreeTextFiles \cup BookFiles \cup NamedFiles

----------------------------------------------------------------------------
(* upload_file, lines 406-463, with the parsing it calls. *)

\* .replace('/', '_').replace('\\', '_')
ReplaceSlashes(name) ==
    AsSeq([i \in 1..Len(name) |-> IF name[i] \in {"/", "\\"} THEN "_" ELSE name[i]])

\* .replace('..', '_')
RECURSIVE ReplaceDotDot(_)
ReplaceDotDot(name) ==
    IF Len(name) < 2 THEN name
    ELSE IF name[1] = "." /\ name[2] = "."
         THEN <<"_">> \o ReplaceDotDot(SubSeq(name, 3, Len(name)))
         ELSE <<name[1]>> \o ReplaceDotDot(Tail(name))

\* line 421
safe_filename(name) == ReplaceDotDot(ReplaceSlashes(name))

\* safe_filename.lower(), line 430, on the symbols of a file name
filename_lower(name) ==
    AsSeq([i \in 1..Len(name) |->
              IF name[i] = "TXT" THEN "txt"
              ELSE IF name[i] = "XLSX" THEN "xlsx"
              ELSE name[i]])

\* filename_lower.endswith('.' + ext)
EndsWith(name, ext) ==
    Len(name) >= 2 /\ name[Len(name) - 1] = "." /\ name[Len(name)] = ext

\* the choice of the parser with every other name read as text
ParsedOtherAsText(file) ==
    LET name == filename_lower(safe_filename(file.filename))
    IN  IF EndsWith(name, "xlsx") \/ EndsWith(name, "xls") THEN
            IF file.kind = "workbook"
            THEN parse_excel(file.book)
            ELSE [raised |-> "ReadError", records |-> <<>>]
        ELSE IF file.kind = "text"
             THEN [raised |-> "none", records |-> parse_pubmed_txt(file.content)]
             ELSE [raised |-> "ReadError", records |-> <<>>]

\* lines 429-438 and 462-463: what the parsing of the saved file gives: the
\* records, an exception, or the return for a format that is not supported.
\* Reading bytes that are not what the parser expects raises in open/read_excel.
Parsed(file) ==
    LET name == filename_lower(safe_filename(file.filename))
    IN  IF EndsWith(name, "txt") THEN
            IF file.kind = "text"
            THEN [raised |-> "none", records |-> parse_pubmed_txt(file.content)]
            ELSE [raised |-> "ReadError", records |-> <<>>]
        ELSE IF EndsWith(name, "xlsx") \/ EndsWith(name, "xls") THEN
            IF file.kind = "workbook"
            THEN parse_excel(file.book)
            ELSE [raised |-> "ReadError", records |-> <<>>]
        ELSE [raised |-> "unsupported", records |-> <<>>]

\* the JSON answer of upload_file and what it wrote
Answer(file, status, err, recs, book) ==
    [file |-> file, status |-> status, error |-> err, preview |-> recs, parsed_xlsx |-> book]

\* upload_file, lines 406-463
upload_request(file) ==
    LET parsed == Parsed(file)
    IN  /\ IF ~file.part THEN
                /\ uploads' = Append(uploads, Answer(file, 400, "NoFile", <<>>, EmptyBook))
                /\ UNCHANGED processed_data
           ELSE IF file.filename = <<>> THEN
                /\ uploads' = Append(uploads, Answer(file, 400, "NoFileSelected", <<>>, EmptyBook))
                /\ UNCHANGED processed_data
           ELSE IF parsed.raised = "unsupported" THEN
                /\ uploads' = Append(uploads, Answer(file, 400, "UnsupportedFormat", <<>>, EmptyBook))
                /\ UNCHANGED processed_data
           ELSE IF parsed.raised # "none" THEN
                /\ uploads' = Append(uploads, Answer(file, 500, parsed.raised, <<>>, EmptyBook))
                /\ UNCHANGED processed_data
           ELSE IF parsed.records = <<>> THEN
                /\ uploads' = Append(uploads, Answer(file, 400, "NoRecordsExtracted", <<>>, EmptyBook))
                /\ UNCHANGED processed_data
           ELSE
                /\ uploads' = Append(uploads, Answer(file, 200, "none", parsed.records,
                                                     export_to_excel(parsed.records)))
                /\ processed_data' = [records |-> parsed.records,
                                      total |-> Len(parsed.records),
                                      screened_output |-> 0]
        /\ UNCHANGED <<outputs, runvars, text, verdict, last_screen>>

\* upload_export_raises with the batch stored before the export is written
upload_export_raises_stored(file) ==
    LET parsed == Parsed(file)
    IN  /\ file.part
        /\ file.filename # <<>>
        /\ parsed.raised = "none"
        /\ parsed.records # <<>>
        /\ uploads' = Append(uploads, Answer(file, 500, "ExportError", <<>>, EmptyBook))
        /\ processed_data' = [records |-> parsed.records,
                              total |-> Len(parsed.records),
                              screened_output |-> 0]
        /\ UNCHANGED <<outputs, runvars, text, verdict, last_screen>>

\* upload_file when export_to_excel (line 443) raises: the file was parsed
\* to records, the exception is answered at lines 462-463 and line 447 is
\* not reached
upload_export_raises(file) ==
    LET parsed == Parsed(file)
    IN  /\ file.part
        /\ file.filename # <<>>
        /\ parsed.raised = "none"
        /\ parsed.records # <<>>
        /\ uploads' = Append(uploads, Answer(file, 500, "ExportError", <<>>, EmptyBook))
        /\ UNCHANGED <<processed_data, outputs, runvars, text, verdict, last_screen>>

----------------------------------------------------------------------------
(* The upload specification: the upload handler on the files of UploadFiles. *)
(* A behaviour holds one upload, or the upload of SeedFile and one more      *)
(* upload after it, then the upload of the workbook the last upload wrote;   *)
(* after the uploads screen_papers is called and the consumer of its stream  *)
(* takes the first event.  (Uploads during a run are in Spec.)               *)

SeedFile == CHOOSE f \in PubmedFiles : f.content = OneText

ParsedName == <<"parsed", ".", "xlsx">>

LastUpload == uploads[Len(uploads)]

Uploading == pc = "idle" /\ http = "none"

UploadRequest ==
    /\ Uploading
    /\ uploads = <<>> \/ (Len(uploads) = 1 /\ uploads[1].file = SeedFile)
    /\ \E file \in UploadFiles : upload_request(file)

\* the workbook export_to_excel wrote is downloaded and uploaded again
Reupload ==
    /\ Uploading
    /\ uploads # <<>>
    /\ LastUpload.status = 200
    /\ LastUpload.file.filename # ParsedName
    /\ upload_request(File(ParsedName, "workbook", <<>>, LastUpload.parsed_xlsx, NoChunks))

NextUpload ==
    \/ UploadRequest
    \/ Reupload
    \/ Screen
    \/ Start

SpecUpload == Init /\ [][NextUpload]_vars

----------------------------------------------------------------------------
(* The store specification: the uploads of the upload specification and      *)
(* uploads whose export fails; then screen_papers is called and its stream   *)
(* is consumed up to the first answer of the backend.                        *)

UploadExportFails ==
    /\ Uploading
    /\ uploads = <<>> \/ (Len(uploads) = 1 /\ uploads[1].file = SeedFile)
    /\ \E file \in UploadFiles : upload_export_raises(file)

RespondTagged == Receive(RespTagYes)

NextStore ==
    \/ UploadRequest
    \/ Reupload
    \/ UploadExportFails
    \/ Screen
    \/ Start
    \/ Progress
    \/ FirstSend
    \/ RespondTagged

SpecStore == Init /\ [][NextStore]_vars

----------------------------------------------------------------------------
(* The prompt specification: a workbook is uploaded and a run over its      *)
(* records is streamed to its end, the calls answered with or without tag.   *)
(* Their rows have every combination of empty and filled title,              *)
(* abstract and keywords; the authors and the id of a row are those of its   *)
(* position, so that rows with the same three texts differ in the rest.      *)

PromptHeader == <<HTitle, HAbstract, HKeyWords, HAuthors, HPmid>>

\* which of title, abstract and keywords a row fills
RowFills == [1..3 -> BOOLEAN]

PromptCell(fills, r, c) ==
    IF c <= 3 THEN (IF fills[c] THEN <<"v", ToString(c)>> ELSE <<>>)
    ELSE <<"w", ToString(r), ToString(c)>>

PromptBook(fs) ==
    [header |-> PromptHeader,
     rows   |-> AsSeq([r \in 1..Len(fs) |->
                    AsSeq([c \in 1..Len(PromptHeader) |-> PromptCell(fs[r], r, c)])])]

PromptFiles ==
    {File(XlsxName, "workbook", <<>>, PromptBook(fs), NoChunks) :
        fs \in SeqsUpTo(RowFills, MaxEntries)}

UploadPrompt ==
    /\ Uploading
    /\ uploads = <<>>
    /\ \E file \in PromptFiles : upload_request(file)

\* the answers of the backend: with a tag, or without one so that the call is repeated
PromptResponses == {RespTagYes, RespNoTagNone}

RespondPrompt == \E a \in PromptResponses : Receive(a)

NextPrompt ==
    \/ UploadPrompt
    \/ Screen
    \/ Start
    \/ Progress
    \/ FirstSend
    \/ RespondPrompt
    \/ Classify
    \/ Complete
    \/ Finish

SpecPrompt == Init /\ [][NextPrompt]_vars

----------------------------------------------------------------------------
(* Vocabulary of the properties of the upload specification. *)

\* the upload requests that were answered with success
Succeeded == {k \in 1..Len(uploads) : uploads[k].status = 200}

\* the requests whose file was parsed by parse_pubmed_txt, by parse_excel
IsTxt(file) ==
    file.part /\ EndsWith(filename_lower(safe_filename(file.filename)), "txt")
IsExcel(file) ==
    /\ file.part
    /\ \/ EndsWith(filename_lower(safe_filename(file.filename)), "xlsx")
       \/ EndsWith(filename_lower(safe_filename(file.filename)), "xls")

HasTitleOrAbstract(r) == r.title # <<>> \/ r.abstract # <<>>

\* C11: every record a parser returned and an upload stored has a title or
\* an abstract that is not empty, and so has every record handed to a run
C11_StoredRecordsHaveTitleOrAbstract ==
    /\ \A k \in Succeeded :
          \A i \in 1..Len(uploads[k].preview) : HasTitleOrAbstract(uploads[k].preview[i])
    /\ processed_data # <<>> =>
          \A i \in 1..Len(processed_data.records) : HasTitleOrAbstract(processed_data.records[i])
    /\ pc # "idle" => \A i \in 1..Len(records) : HasTitleOrAbstract(records[i])

\* the uploads of a PubMed export: the file states its chunks
IsPubmedExport(file) == file.chunks # <<>>

\* the chunks of a file that state a title or an abstract, in order
ValidChunks(file) == SelectSeq(file.chunks, HasTitleOrAbstract)

\* the k-th record carries the identifier, title and abstract of the k-th of cs
Carries(recs, cs) ==
    /\ Len(recs) = Len(cs)
    /\ \A k \in 1..Len(cs) :
          /\ recs[k].PMID = cs[k].PMID
          /\ recs[k].title = cs[k].title
          /\ recs[k].abstract = cs[k].abstract

\* C12: from a PubMed export of N chunks the parser returns N records (or
\* only those of the chunks with a title or an abstract), in the order of
\* the chunks, the k-th carrying the identifier, title and abstract of the k-th
C12_OneRecordPerChunk ==
    \A k \in 1..Len(uploads) :
        IsPubmedExport(uploads[k].file) =>
            /\ uploads[k].status = 200
            /\ \/ Carries(uploads[k].preview, uploads[k].file.chunks)
               \/ Carries(uploads[k].preview, ValidChunks(uploads[k].file))

\* the identifiers of a batch are pairwise distinct
DistinctIds(recs) ==
    \A i, j \in 1..Len(recs) : i # j => recs[i].PMID # recs[j].PMID

\* C13: the records of one batch have pairwise distinct identifiers; those
\* of a workbook are the positions of the rows
C13_IdentifiersUnique ==
    \A k \in Succeeded :
        /\ DistinctIds(uploads[k].preview)
        /\ (IsExcel(uploads[k].file) /\ uploads[k].file.filename # ParsedName) =>
              \A r \in 1..Len(uploads[k].preview) :
                  uploads[k].preview[r].PMID = <<ToString(r)>>

\* the header h contains a keyword of the field, whatever the case of its letters
HeaderMatches(h, field) == \E keyword \in column_mapping[field] : Contains(Lower(h), keyword)

\* the columns of a workbook whose header contains a keyword of the field
MatchingColumns(book, field) ==
    {c \in 1..Len(book.header) : HeaderMatches(book.header[c], field)}

HasRequiredColumn(book) ==
    MatchingColumns(book, "title") # {} \/ MatchingColumns(book, "abstract") # {}

\* the request was answered by reading the file as a workbook
ParsedAsWorkbook(u) == IsExcel(u.file) /\ u.file.kind = "workbook"

CanonicalFields == {"PMID", "title", "abstract", "keywords", "authors", "date", "country"}

\* the text of a cell: '' for a cell without value
CellText(cell) == IF cell = <<>> THEN <<>> ELSE WsStrip(cell)

\* C14: a workbook with a title or an abstract column gives one record per
\* data row, in the order of the rows, every record with the seven fields; a
\* field without column is '', a field with a column is the text of the
\* row's cell in such a column, '' for a cell without value
C14_OneRecordPerRow ==
    \A k \in 1..Len(uploads) :
        (ParsedAsWorkbook(uploads[k]) /\ HasRequiredColumn(uploads[k].file.book)) =>
            LET book == uploads[k].file.book
                recs == uploads[k].preview
            IN  /\ uploads[k].status = 200 \/ book.rows = <<>>
                /\ Len(recs) = Len(book.rows)
                /\ \A r \in 1..Len(recs) :
                      /\ DOMAIN recs[r] = CanonicalFields
                      /\ \A field \in CanonicalFields :
                            IF MatchingColumns(book, field) = {}
                            THEN recs[r][field] = <<>>
                            ELSE \E c \in MatchingColumns(book, field) :
                                    recs[r][field] = CellText(book.rows[r][c])

\* a workbook of two rows, the first without any value, the second filled,
\* with columns for some fields only, was parsed
C14_Witness ==
    \E k \in Succeeded :
        /\ ParsedAsWorkbook(uploads[k])
        /\ Len(uploads[k].file.book.rows) = 2
        /\ \A c \in 1..Len(uploads[k].file.book.header) : uploads[k].file.book.rows[1][c] = <<>>
        /\ MatchingColumns(uploads[k].file.book, "country") = {}
        /\ uploads[k].preview[1].title = <<>>
        /\ uploads[k].preview[2].title # <<>>

\* the batch stored is the one of the last upload answered with success
StoredIsLastSuccess ==
    IF Succeeded = {} THEN processed_data = <<>>
    ELSE /\ processed_data # <<>>
         /\ processed_data.records = uploads[MaxOf(Succeeded)].preview

\* a run was given the batch of the last upload answered with success
RunFromStored ==
    pc # "idle" => Succeeded # {} /\ records = uploads[MaxOf(Succeeded)].preview

\* C15: parse_excel raises its ValueError exactly for a workbook without
\* title column and without abstract column; the upload then returns no
\* records, the batch stored before stays, and a run gets no record of the file
C15_MissingRequiredColumns ==
    /\ \A k \in 1..Len(uploads) :
          ParsedAsWorkbook(uploads[k]) =>
              /\ (uploads[k].status = 500 /\ uploads[k].error = "ValueError")
                    <=> ~HasRequiredColumn(uploads[k].file.book)
              /\ ~HasRequiredColumn(uploads[k].file.book) =>
                    k \notin Succeeded /\ uploads[k].preview = <<>>
    /\ StoredIsLastSuccess
    /\ RunFromStored

\* after a successful upload a workbook without the columns was refused,
\* and the run that followed got the batch of the first upload
C15_Witness ==
    /\ Len(uploads) = 2
    /\ uploads[1].status = 200
    /\ uploads[2].error = "ValueError"
    /\ MatchingColumns(uploads[2].file.book, "PMID") # {}
    /\ processed_data.records = uploads[1].preview
    /\ pc = "start"
    /\ records = uploads[1].preview

\* the extension of the uploaded name is one of .txt, .xlsx, .xls in any case
SupportedExtension(name) ==
    /\ Len(name) >= 2
    /\ name[Len(name) - 1] = "."
    /\ name[Len(name)] \in {"txt", "TXT", "xlsx", "XLSX", "xls"}

\* the file is read by its parser and holds nothing to make a record of
YieldsNoRecords(file) ==
    \/ IsTxt(file) /\ file.kind = "text" /\ IsBlank(file.content)
    \/ /\ IsExcel(file)
       /\ file.kind = "workbook"
       /\ HasRequiredColumn(file.book)
       /\ file.book.rows = <<>>

\* C16: a file with another extension is refused as UnsupportedFormat, a
\* file that parses to no record as NoRecordsExtracted; the upload itself
\* returns the error and no batch of the file is stored or given to a run
C16_UnsupportedOrEmpty ==
    /\ \A k \in 1..Len(uploads) :
          (uploads[k].file.part /\ uploads[k].file.filename # <<>>) =>
              /\ ~SupportedExtension(uploads[k].file.filename) =>
                    uploads[k].status = 400 /\ uploads[k].error = "UnsupportedFormat"
              /\ YieldsNoRecords(uploads[k].file) =>
                    uploads[k].status = 400 /\ uploads[k].error = "NoRecordsExtracted"
              /\ uploads[k].error \in {"UnsupportedFormat", "NoRecordsExtracted"} =>
                    k \notin Succeeded /\ uploads[k].preview = <<>>
    /\ StoredIsLastSuccess
    /\ RunFromStored

\* after a successful upload a .csv file was refused, and the run that
\* followed got the batch of the first upload
C16_Witness ==
    /\ Len(uploads) = 2
    /\ uploads[1].status = 200
    /\ uploads[2].error = "UnsupportedFormat"
    /\ uploads[2].file.kind = "text"
    /\ processed_data.records = uploads[1].preview
    /\ pc = "start"
    /\ records = uploads[1].preview

\* C19: uploading the workbook export_to_excel wrote for a batch gives the
\* records of the batch again: as many, in the same order, with the same
\* seven values
C19_RoundTrip ==
    \A k \in 2..Len(uploads) :
        uploads[k].file.filename = ParsedName =>
            /\ uploads[k].status = 200
            /\ uploads[k].preview = uploads[k - 1].preview

----------------------------------------------------------------------------
(* C20: early termination on a tag. *)

\* the calls answered with a text that holds a tag
TagAnswers(mc) == {k \in 1..Len(mc) : mc[k].ok /\ HasTag(mc[k].response)}

\* C20: once a response holding a tag was received for a record, no further
\* call is made for the record, whatever the value of the tag; the record is
\* resolved next, not sent again
C20_EarlyTerminationOnTag ==
    /\ \A k \in TagAnswers(model_calls) :
          \A j \in (k + 1)..Len(model_calls) :
              model_calls[j].paper_id # model_calls[k].paper_id
    /\ (model_calls # <<>> /\ Len(model_calls) \in TagAnswers(model_calls)) => pc # "send"

\* a run ended whose record was answered without a tag first and then with a
\* tag whose value is no marker: two calls, and the result is undetermined
C20_Witness ==
    /\ pc = "done"
    /\ Len(model_calls) = 2
    /\ ~HasTag(model_calls[1].response)
    /\ model_calls[2].response = RespTagOther
    /\ results[1].result = "unknown"

----------------------------------------------------------------------------
(* C17: cancellation by not consuming. *)

\* C17: a step takes the generator to one yield more and makes at most one
\* call; the step that stops the run makes no call and yields nothing, and
\* from then on no call is made, no event is yielded, no result is stored
\* and no table is written
C17_Step ==
    /\ Len(model_calls') <= Len(model_calls) + 1
    /\ Len(events') <= Len(events) + 1
    /\ pc = "closed" => pc' = "closed"
    /\ pc' = "closed" => UNCHANGED <<model_calls, events, results, outputs>>

C17_CancelByNotConsuming == [][C17_Step]_vars

\* the consumer stopped at the send of the second record, a new batch was
\* uploaded afterwards: the only call made is the one of the first record,
\* and there is one result, no complete event and no table
C17_Witness ==
    /\ pc = "closed"
    /\ current_index = 2
    /\ IsSend(LastEvent(events))
    /\ processed_data.records # records
    /\ \A k \in 1..Len(model_calls) : model_calls[k].paper_id = 1
    /\ Len(results) = 1
    /\ outputs = <<>>

----------------------------------------------------------------------------
(* C18: the prompt is a function of the criterion and three fields. *)

\* the three fields with their labels, in the order of the prompt
LabelledFields(record) ==
    << <<"title", record.title>>, <<"abstract", record.abstract>>,
       <<"keywords", record.keywords>> >>

IsFilled(part) == part[2] # <<>>

\* the prompt the claim describes for criterion p and a record
ExpectedPrompt(p, record) ==
    [criterion |-> p, paper_text |-> SelectSeq(LabelledFields(record), IsFilled)]

SameTexts(r1, r2) ==
    r1.title = r2.title /\ r1.abstract = r2.abstract /\ r1.keywords = r2.keywords

\* C18: the prompt of every call is the criterion of the run and the
\* non-empty ones of title, abstract and keywords of the record, labelled,
\* in this order, and nothing else: records with the same three texts get
\* the same prompt whatever their position and their other fields
C18_PromptIsPure ==
    /\ \A k \in 1..Len(model_calls) :
          model_calls[k].content = ExpectedPrompt(prompt, records[model_calls[k].paper_id])
    /\ \A j, k \in 1..Len(model_calls) :
          SameTexts(records[model_calls[j].paper_id], records[model_calls[k].paper_id])
              => model_calls[j].content = model_calls[k].content

\* a run ended over two records without title and with the same abstract
\* and keywords, other authors and other ids, the first one called twice:
\* the three prompts are the same and hold the abstract and the keywords only
C18_Witness ==
    /\ pc = "done"
    /\ Len(records) = 2
    /\ records[1].title = <<>>
    /\ SameTexts(records[1], records[2])
    /\ records[1].authors # records[2].authors
    /\ records[1].PMID # records[2].PMID
    /\ Len(model_calls) = 3
    /\ model_calls[1].paper_id = 1
    /\ model_calls[2].paper_id = 1
    /\ model_calls[3].paper_id = 2
    /\ model_calls[1].content = model_calls[2].content
    /\ model_calls[1].content = model_calls[3].content
    /\ Len(model_calls[1].content.paper_text) = 2
    /\ model_calls[1].content.paper_text[1][1] = "abstract"

----------------------------------------------------------------------------
(* C21: no retry after a heuristic match. *)

\* the text holds a lexical marker of exclusion or of inclusion
HasLexicalMarker(s) ==
    Contains(s, <<"fou">>) \/ Contains(s, <<"bu", "shi">>) \/ Contains(s, <<"shi">>)

\* C21: after an answer without tag in which the heuristic finds a marker,
\* no further call is made for the record
C21_NoRetryOnHeuristicMatch ==
    \A k \in 1..Len(model_calls) :
        (model_calls[k].ok /\ ~HasTag(model_calls[k].response)
            /\ HasLexicalMarker(model_calls[k].response)) =>
            \A j \in (k + 1)..Len(model_calls) :
                model_calls[j].paper_id # model_calls[k].paper_id

----------------------------------------------------------------------------
(* C22: the prompt of a retry. *)

\* the calls for a record after the first one
RetryCalls(mc) == {k \in 1..Len(mc) : \E j \in 1..(k - 1) : mc[j].paper_id = mc[k].paper_id}

\* C22: the content of a call of attempt 2 or 3 is not the full prompt that
\* was the content of the first call for the record
C22_RetrySendsDirective ==
    \A k \in RetryCalls(model_calls) :
        \A j \in 1..(k - 1) :
            model_calls[j].paper_id = model_calls[k].paper_id =>
                model_calls[k].content # model_calls[j].content

----------------------------------------------------------------------------
(* C23: backend failures are retried within the bound of three attempts. *)

\* the number of calls made for the record of call k up to and with call k
AttemptOf(k) ==
    Cardinality({d \in CallsOf(model_calls, model_calls[k].paper_id) : d <= k})

\* C23: a failed call is one of at most three attempts for its record; when
\* attempts are left the generator goes on to a further call for the same
\* record, when it was the third attempt the run fails with the backend
\* error; and the run fails with this error in no other case
C23_BackendFailureRetried ==
    /\ \A k \in 1..Len(model_calls) :
          ~model_calls[k].ok =>
              /\ AttemptOf(k) <= max_retries
              /\ AttemptOf(k) < max_retries =>
                    IF k < Len(model_calls)
                    THEN model_calls[k + 1].paper_id = model_calls[k].paper_id
                    ELSE /\ pc = "send"
                         /\ current_index = model_calls[k].paper_id
                         /\ error = "none"
              /\ AttemptOf(k) = max_retries =>
                    k = Len(model_calls) /\ pc = "failed" /\ error = "backend"
    /\ error = "backend" =>
          /\ model_calls # <<>>
          /\ ~model_calls[Len(model_calls)].ok
          /\ AttemptOf(Len(model_calls)) = max_retries

\* the calls for the second record failed twice and the third one was
\* answered: the run ended with a result for the record
C23_Witness ==
    /\ pc = "done"
    /\ Len(records) = 2
    /\ Cardinality(CallsOf(model_calls, 2)) = 3
    /\ \E k \in CallsOf(model_calls, 2) :
          /\ ~model_calls[k].ok
          /\ ~model_calls[k + 1].ok
          /\ model_calls[k + 2].ok
    /\ Len(results) = 2
    /\ error = "none"

----------------------------------------------------------------------------
(* C24: a tag with a value that is no marker. *)

\* the value of a tag without the white space around it is none of the markers
UnrecognizedTag(s, sp) == Strip(TagValue(s, sp)) \notin RecognizedMarkers

\* C24: a text that holds a tag, and no tag whose value is a marker, yields
\* undetermined, whatever lexical markers it holds
C24_UnrecognizedTagIsUndetermined ==
    (verdict # "none") =>
        ((HasTag(text) /\ \A sp \in TagSpans(text) : UnrecognizedTag(text, sp))
            => verdict = "unknown")

\* an included marker in the prose and a tag with another value: undetermined
C24_Witness ==
    /\ text = <<"shi", "TAG", "x", "]">>
    /\ verdict = "unknown"

----------------------------------------------------------------------------
(* C25: the order of the heuristic. *)

HasExcludedMarker(s) == Contains(s, <<"fou">>) \/ Contains(s, <<"bu", "shi">>)

HasIncludedMarker(s) == Contains(s, <<"shi">>)

\* C25: a text without tag yields excluded when it holds an excluded marker,
\* else included when it holds an included marker, else undetermined
C25_HeuristicOrder ==
    (verdict # "none" /\ ~HasTag(text)) =>
        /\ HasExcludedMarker(text) => verdict = "no"
        /\ (~HasExcludedMarker(text) /\ HasIncludedMarker(text)) => verdict = "yes"
        /\ (~HasExcludedMarker(text) /\ ~HasIncludedMarker(text)) => verdict = "unknown"

\* an included marker before an excluded one, no tag: excluded
C25_Witness ==
    /\ text = <<"shi", "x", "fou">>
    /\ verdict = "no"

----------------------------------------------------------------------------
(* C26: one attempt counter for tagless answers and backend failures. *)

\* the last call made for record i
LastCall(i) == model_calls[MaxOf(CallsOf(model_calls, i))]

\* C26: no record is called more than three times; a record with a result
\* was resolved by an answer; a record without one is the current record,
\* and either the run failed with the backend error on its third call, or
\* the generator stands at a further send with an attempt left, or at the
\* answer it has just received
C26_SharedAttemptBudget ==
    \A i \in 1..Len(records) :
        CallsOf(model_calls, i) # {} =>
            /\ Cardinality(CallsOf(model_calls, i)) <= max_retries
            /\ IF i <= Len(results)
               THEN LastCall(i).ok /\ results[i].result \in Verdicts
               ELSE /\ i = current_index
                    /\ \/ /\ pc = "failed"
                          /\ error = "backend"
                          /\ ~LastCall(i).ok
                          /\ Cardinality(CallsOf(model_calls, i)) = max_retries
                       \/ /\ pc = "send"
                          /\ Cardinality(CallsOf(model_calls, i)) < max_retries
                       \/ /\ pc = "receive"
                          /\ LastCall(i).ok

\* an answer without tag, then two failures: the third call exhausts the
\* counter and the run fails
C26_Witness ==
    /\ pc = "failed"
    /\ Len(model_calls) = 3
    /\ model_calls[1].ok
    /\ ~HasTag(model_calls[1].response)
    /\ ~model_calls[2].ok
    /\ ~model_calls[3].ok
    /\ results = <<>>

----------------------------------------------------------------------------
(* C27: the verdict of a result is the one of the response it carries. *)

\* the first tag of a text that holds one
FirstTag(s) == CHOOSE sp \in TagSpans(s) : \A o \in TagSpans(s) : sp[1] <= o[1]

\* the verdict the extraction rules give for a response text
ExtractedVerdict(s) ==
    IF HasTag(s) THEN MarkerVerdict(Strip(TagValue(s, FirstTag(s))))
    ELSE IF HasExcludedMarker(s) THEN "no"
    ELSE IF HasIncludedMarker(s) THEN "yes"
    ELSE "unknown"

\* C27: the response of a result event is the last one received for the
\* record, and the verdict of the event is the one extracted from it
C27_VerdictOfLastResponse ==
    \A k \in Positions(events, IsResult) :
        /\ \E c \in CallsOf(model_calls, events[k].data.index) : model_calls[c].ok
        /\ events[k].data.raw_response = model_calls[LastAnswer(events[k].data.index)].response
        /\ events[k].data.result = ExtractedVerdict(events[k].data.raw_response)

\* an answer that reads included, a failure, then an answer that reads
\* excluded: the result is excluded and carries the third response
C27_Witness ==
    /\ pc = "result"
    /\ Len(model_calls) = 3
    /\ model_calls[1].response = RespNoTagYes
    /\ ~model_calls[2].ok
    /\ model_calls[3].response = RespNoTagNo
    /\ LastEvent(events).data.raw_response = RespNoTagNo
    /\ LastEvent(events).data.result = "no"

----------------------------------------------------------------------------
(* C30: several tags in one response. *)

\* C30: after an answer that holds more than one tag no further call is
\* made for the record, and the result of the record is the verdict of the
\* first of the tags
C30_FirstTagDecides ==
    \A k \in 1..Len(model_calls) :
        (model_calls[k].ok /\ Cardinality(TagSpans(model_calls[k].response)) > 1) =>
            LET i == model_calls[k].paper_id
                s == model_calls[k].response
            IN  /\ \A j \in (k + 1)..Len(model_calls) : model_calls[j].paper_id # i
                /\ pc # "send"
                /\ i <= Len(results) =>
                      /\ results[i].raw_response = s
                      /\ results[i].result = MarkerVerdict(Strip(TagValue(s, FirstTag(s))))

\* the second answer for a record holds the included tag and then the
\* excluded tag: the record is included
C30_Witness ==
    /\ pc = "done"
    /\ Len(model_calls) = 2
    /\ model_calls[2].response = RespTwoTags
    /\ results[1].result = "yes"

----------------------------------------------------------------------------
(* C28: only a successful upload replaces the stored batch. *)

\* what the parser chosen for the file returns
ParserOutput(file) ==
    IF IsTxt(file) THEN parse_pubmed_txt(file.content) ELSE parse_excel(file.book).records

\* C28: a step that handles no upload leaves the stored batch as it is, and
\* so does an upload answered with an error; an upload answered with
\* success stores the records its parser returned and their number
C28_Step ==
    IF uploads' = uploads THEN processed_data' = processed_data
    ELSE LET u == uploads'[Len(uploads')]
         IN  /\ uploads' = Append(uploads, u)
             /\ IF u.status = 200
                THEN /\ ParserOutput(u.file) # <<>>
                     /\ processed_data'.records = ParserOutput(u.file)
                     /\ processed_data'.total = Len(ParserOutput(u.file))
                ELSE processed_data' = processed_data

C28_OnlySuccessReplacesBatch == [][C28_Step]_vars

\* after a successful upload the export of a parsed workbook failed: the
\* batch of the first upload is still the stored one
C28_Witness ==
    /\ Len(uploads) = 2
    /\ uploads[1].status = 200
    /\ uploads[2].error = "ExportError"
    /\ uploads[2].file.kind = "workbook"
    /\ processed_data.records = uploads[1].preview
    /\ processed_data.total = Len(uploads[1].preview)

----------------------------------------------------------------------------
(* C29: when a run starts. *)

ScreenErrors == {"400 no file", "400 no prompt", "500 no ollama"}

\* the last request came with a criterion, after a successful upload, and
\* the health check of the backend succeeded
ReadyToScreen ==
    /\ last_screen # <<>>
    /\ Succeeded # {}
    /\ last_screen.prompt # ""
    /\ last_screen.ollama

\* C29: a run exists only for a request made after a successful upload,
\* with a criterion and a backend in health, and it runs over the batch of
\* that upload; any other request is answered with an error, and then no
\* event was yielded and no call was made
C29_RunStartsOnlyWhenReady ==
    IF ReadyToScreen
    THEN /\ http = "200 stream"
         /\ pc # "idle"
         /\ prompt = last_screen.prompt
         /\ records = uploads[MaxOf(Succeeded)].preview
    ELSE /\ pc = "idle"
         /\ events = <<>>
         /\ model_calls = <<>>
         /\ IF last_screen = <<>> THEN http = "none" ELSE http \in ScreenErrors

\* the only upload failed at its export; the request that followed, with a
\* criterion and the backend in health, was answered with an error
C29_Witness ==
    /\ Len(uploads) = 1
    /\ uploads[1].error = "ExportError"
    /\ last_screen # <<>>
    /\ last_screen.prompt = "criterion"
    /\ last_screen.ollama
    /\ http = "400 no file"
    /\ events = <<>>

====
